---- MODULE Spec2Model ----
(***************************************************************************)
(* Metrics acquisition and aggregation engine of psql-cli:                 *)
(*   - TimeSeries (src/src/metrics.py): add, sort, copy, extend,            *)
(*     group_by_minutes, combine;                                           *)
(*   - the fetch orchestrator GMonitoringCollector.generate_cloudsql_metrics*)
(*     (src/src/g_monitoring_collector.py);                                 *)
(*   - the figure builders that consume the CloudSQLMetrics snapshot        *)
(*     (src/src/figure_logic/*.py).                                         *)
(*                                                                         *)
(* Four specifications share the module:                                   *)
(*   Spec     the thread pool fan-out / fan-in of generate_cloudsql_metrics;*)
(*   SpecTS   one TimeSeries `self` and an argument series `other`,         *)
(*            driven by the TimeSeries methods;                             *)
(*   SpecUnit the same methods with the units of both series drawn freely;  *)
(*   SpecFig  the report's figure builders reading an assembled snapshot.   *)
(***************************************************************************)
EXTENDS Integers, Sequences, FiniteSets, TLC

VARIABLES
    self,       \* the TimeSeries a method is called on: [values, unit]
    other,      \* the TimeSeries passed as argument to combine / extend
    result,     \* what the last call returned
    raised,     \* the exception the last call raised
    call,       \* the last call of a method or function: name, arguments, state before it
    pc,         \* position of the thread running generate_cloudsql_metrics
    nsubmitted, \* how many entries of fetch_map have been submitted to the pool
    fut,        \* attr -> the Future of the task submitted for it
    data,       \* the local dict `data` of generate_cloudsql_metrics
    error,      \* the exception that left generate_cloudsql_metrics
    snapshot,   \* the CloudSQLMetrics that generate_cloudsql_metrics returned
    metrics,    \* the CloudSQLMetrics object handed to the figure builders
    assembled,  \* the field values of `metrics` at the moment it was constructed
    figures,    \* the figure builders that have run on `metrics`, in call order
    report,     \* the HotspotsReport: its list _figures
    run         \* a call of execute_sql_n_concurrent_async: arguments, chunks, workers

tsvars   == <<self, other, result, raised, call>>
orchvars == <<pc, nsubmitted, fut, data, error, snapshot>>
figvars  == <<metrics, assembled, figures>>
repvars  == <<report>>
sqlvars  == <<run>>
vars     == <<self, other, result, raised, call,
              pc, nsubmitted, fut, data, error, snapshot,
              metrics, assembled, figures, report, run>>

(***************************************************************************)
(* Bounds of the model.                                                    *)
(***************************************************************************)
MaxLen       == 3   \* samples held by self and other together
MantissaBits == 3   \* significand width of the model's binary floats
MaxUnitLen   == 1   \* samples held by self and other together under SpecUnit
NumTasks     == 3   \* entries of fetch_map that are dispatched
MaxGetLen    == 3   \* samples held by self under SpecGet
MaxPoints    == 4   \* points of the raw series under SpecDecode
MaxBuckets   == 4   \* buckets of a histogram under SpecDecode
MaxSeries    == 2   \* raw series the backend answers with under SpecLoad
MaxFigures   == 3   \* figures added to one report under SpecReport
MaxTimes     == 5   \* executions asked of one concurrent run under SpecSql
MaxWorkers   == 3   \* workers asked of one concurrent run under SpecSql
MaxDists     == 3   \* distribution samples of the raw series under SpecLatency
MaxRegroupLen == 3  \* samples of the series under SpecRegroup
MaxClock      == 2  \* later readings of the clock under SpecWindow

(***************************************************************************)
(* Python floats.  A float is a non-negative integer number of quanta      *)
(* (the smallest subnormal); it is representable when it is m * 2^e with   *)
(* m < 2^MantissaBits.  Every arithmetic result is rounded to the nearest  *)
(* representable value, ties to even, as IEEE-754 binary64 does with a     *)
(* 53-bit significand.                                                     *)
(***************************************************************************)
RECURSIVE Pow2(_)
Pow2(k) == IF k <= 0 THEN 1 ELSE 2 * Pow2(k - 1)

\* n / d rounded to an integer, ties to the even integer
RoundHalfEven(n, d) ==
    LET q == n \div d
        r == n % d
    IN  IF 2 * r < d THEN q
        ELSE IF 2 * r > d THEN q + 1
        ELSE IF q % 2 = 0 THEN q ELSE q + 1

\* the exponent of the binade n / d falls in: the least e >= 0 with
\* n / d < 2^(MantissaBits + e)
RECURSIVE Exponent(_, _, _)
Exponent(n, d, e) ==
    IF n < Pow2(MantissaBits + e) * d THEN e ELSE Exponent(n, d, e + 1)

\* the float nearest to the rational n / d  (n >= 0, d > 0)
FloatOf(n, d) ==
    LET e == Exponent(n, d, 0)
    IN  RoundHalfEven(n, d * Pow2(e)) * Pow2(e)

Representable(n, d) == FloatOf(n, d) * d = n

\* spacing of the floats around x (one unit in the last place)
Ulp(x) == Pow2(Exponent(x, 1, 0))

FAdd(a, b) == FloatOf(a + b, 1)      \* a + b
FDiv(a, n) == FloatOf(a, n)          \* a / n
FMul(n, a) == FloatOf(n * a, 1)      \* n * a

(***************************************************************************)
(* datetime.  A timestamp is a count of half seconds; its fields are read  *)
(* and replaced as datetime.replace does (the date and hour are kept).     *)
(***************************************************************************)
MkTs(hour, minute, second, half) == hour * 7200 + minute * 120 + second * 2 + half

Hour(t)        == t \div 7200
Minute(t)      == (t \div 120) % 60
Second(t)      == (t \div 2) % 60
Microsecond(t) == (t % 2) * 500000

Replace(t, minute, second, microsecond) ==
    MkTs(Hour(t), minute, second, microsecond \div 500000)

\* the sample timestamps and values the model draws from
\* (00:01:30.5 and 00:04:00 share a 5-minute bucket and not a 3-minute one;
\* 01:03:00 lies in another hour; 8 and 40 quanta stand for 0.5 and 2.5)
Samples == { <<MkTs(0, 1, 30, 1), 8>>, <<MkTs(0, 4, 0, 0), 8>>,
             <<MkTs(0, 4, 0, 0), 40>>, <<MkTs(1, 3, 0, 0), 40>> }
Mins   == { -3, 0, 3, 5 }
Modes  == { "sum", "avg", "max" }

NoneUnit == "None"
Units    == { NoneUnit, "", "bytes" }

None  == [kind |-> "None"]     \* Python None as a return value
NoErr == "none"                \* no exception

(***************************************************************************)
(* TimeSeries (src/src/metrics.py).  A series is [values, unit]; values is *)
(* the list of (timestamp, value) tuples.                                  *)
(***************************************************************************)
TimeSeries(values, unit) == [kind |-> "TimeSeries", values |-> values, unit |-> unit]

add(s, ts, value) == [s EXCEPT !.values = Append(@, <<ts, value>>)]

timestamps(s) == [i \in 1..Len(s.values) |-> s.values[i][1]]

DataOf(s) == [i \in 1..Len(s.values) |-> s.values[i][2]]

copy(s) == TimeSeries([i \in 1..Len(s.values) |-> <<s.values[i][1], s.values[i][2]>>], s.unit)

extend(s, timeseries) == [s EXCEPT !.values = @ \o timeseries.values]

\* Python values that carry their type: a bool is an int of value 0 or 1
PyBool(b)  == [type |-> "bool", v |-> b]
PyInt(n)   == [type |-> "int", v |-> n]
PyFloat(x) == [type |-> "float", v |-> x]

\* the indices of the entries of values whose timestamp equals ts
Matches(values, ts) == {i \in 1..Len(values) : values[i][1] = ts}

\* a get_by_ts that returns the value of the last entry of the timestamp
GetByTsLast(s, ts) ==
    IF Matches(s.values, ts) = {} THEN PyInt(0)
    ELSE s.values[CHOOSE i \in Matches(s.values, ts) :
                      \A j \in Matches(s.values, ts) : j <= i][2]

\* for t, v in self.values: if t == ts: return v; after the loop: return 0
get_by_ts(s, ts) ==
    IF Matches(s.values, ts) = {} THEN PyInt(0)
    ELSE s.values[CHOOSE i \in Matches(s.values, ts) :
                      \A j \in Matches(s.values, ts) : i <= j][2]

\* list.sort(key=lambda x: x[0], reverse=not ascending): a stable sort; with
\* reverse the elements of equal key keep their original order too
RECURSIVE SortFrom(_, _, _, _)
SortFrom(values, i, ascending, acc) ==
    IF i > Len(values) THEN acc
    ELSE LET x == values[i]
             Before(y) == IF ascending THEN y[1] <= x[1] ELSE y[1] >= x[1]
             k == Cardinality({j \in 1..Len(acc) : Before(acc[j])})
         IN  SortFrom(values, i + 1, ascending,
                      SubSeq(acc, 1, k) \o <<x>> \o SubSeq(acc, k + 1, Len(acc)))

sort(s, ascending) == [s EXCEPT !.values = SortFrom(@, 1, ascending, <<>>)]

\* sorted(keys): the elements of a set of timestamps in ascending order
RECURSIVE Sorted(_)
Sorted(S) ==
    IF S = {} THEN <<>>
    ELSE LET least == CHOOSE x \in S : \A y \in S : x <= y
         IN  <<least>> \o Sorted(S \ {least})

\* dict.get(key, default)
Get(d, key, default) == IF key \in DOMAIN d THEN d[key] ELSE default

\* d[key] = v
Put(d, key, v) == [k \in DOMAIN d \cup {key} |-> IF k = key THEN v ELSE d[k]]

EmptyDict == [k \in {} |-> 0]

\* float(value): the model's values are floats already
ToFloat(value) == value

\* group_by_minutes without its mode check: an unknown mode aggregates as avg
GroupByMinutesRaisesMinOnly(min, mode) ==
    IF min <= 0 THEN "ValueError" ELSE NoErr

\* the checks at the head of group_by_minutes
GroupByMinutesRaises(min, mode) ==
    IF min <= 0 THEN "ValueError"
    ELSE IF mode \notin {"sum", "avg"} THEN "ValueError"
    ELSE NoErr

\* a bucket_ts that keeps the seconds of the sample
BucketTsKeepSecond(ts, min) ==
    LET bucket_minute == (Minute(ts) \div min) * min
    IN  Replace(ts, bucket_minute, Second(ts), 0)

\* bucket_ts of one timestamp
BucketTs(ts, min) ==
    LET bucket_minute == (Minute(ts) \div min) * min
    IN  Replace(ts, bucket_minute, 0, 0)

\* a first loop whose sums keep the last sample of a bucket only
RECURSIVE AccumulateLastWins(_, _, _, _)
AccumulateLastWins(values, i, min, acc) ==
    IF i > Len(values) THEN acc
    ELSE LET bucket_ts == BucketTs(values[i][1], min)
         IN  AccumulateLastWins(values, i + 1, min,
                 [sums   |-> Put(acc.sums, bucket_ts, ToFloat(values[i][2])),
                  counts |-> Put(acc.counts, bucket_ts,
                                 Get(acc.counts, bucket_ts, 0) + 1)])

\* the first loop of group_by_minutes: the dicts sums and counts
RECURSIVE Accumulate(_, _, _, _)
Accumulate(values, i, min, acc) ==
    IF i > Len(values) THEN acc
    ELSE LET bucket_ts == BucketTs(values[i][1], min)
             value     == values[i][2]
         IN  Accumulate(values, i + 1, min,
                 [sums   |-> Put(acc.sums, bucket_ts,
                                 FAdd(Get(acc.sums, bucket_ts, 0), ToFloat(value))),
                  counts |-> Put(acc.counts, bucket_ts,
                                 Get(acc.counts, bucket_ts, 0) + 1)])

\* an avg that divides by one more than the number of samples
AggregateOffByOne(sum, count, mode) ==
    IF mode = "sum" THEN sum ELSE FDiv(sum, count + 1)

\* agg of one bucket
Aggregate(sum, count, mode) ==
    IF mode = "sum" THEN sum ELSE FDiv(sum, count)

\* a second loop that stamps every bucket with its end instead of its start
NewValuesBucketEnd(values, min, mode) ==
    LET acc  == Accumulate(values, 1, min, [sums |-> EmptyDict, counts |-> EmptyDict])
        keys == Sorted(DOMAIN acc.sums)
    IN  [i \in 1..Len(keys) |->
            <<keys[i] + min * (MkTs(0, 1, 0, 0) - MkTs(0, 0, 0, 0)),
              Aggregate(acc.sums[keys[i]], acc.counts[keys[i]], mode)>>]

\* the second loop of group_by_minutes: new_values
NewValues(values, min, mode) ==
    LET acc  == Accumulate(values, 1, min, [sums |-> EmptyDict, counts |-> EmptyDict])
        keys == Sorted(DOMAIN acc.sums)
    IN  [i \in 1..Len(keys) |->
            <<keys[i], Aggregate(acc.sums[keys[i]], acc.counts[keys[i]], mode)>>]

group_by_minutes(s, min, mode) == [s EXCEPT !.values = NewValues(@, min, mode)]

\* the check at the head of combine
CombineRaises(mode) ==
    IF mode \notin {"sum", "avg"} THEN "ValueError" ELSE NoErr

\* truth value of a unit: None and the empty string are false
Truthy(unit) == unit # NoneUnit /\ unit # ""

\* self.unit or other.unit
ResultUnit(self_unit, other_unit) ==
    IF Truthy(self_unit) THEN self_unit ELSE other_unit

\* {ts: v for ts, v in values}: a later entry of the same timestamp replaces
\* the earlier one
ToMap(values) ==
    [ts \in {values[i][1] : i \in 1..Len(values)} |->
        LET last == CHOOSE i \in 1..Len(values) :
                        /\ values[i][1] = ts
                        /\ \A j \in 1..Len(values) : values[j][1] = ts => j <= i
        IN  values[last][2]]

\* a combine that walks the timestamps of self only
AllTimestampsOfSelf(self_map, other_map) == DOMAIN self_map

\* all_timestamps = set(self_map) | set(other_map)
AllTimestamps(self_map, other_map) == DOMAIN self_map \cup DOMAIN other_map

\* a combine that treats a missing value as zero
CombineValueZeroFill(self_map, other_map, ts, mode) ==
    IF mode = "sum"
    THEN FAdd(Get(self_map, ts, 0), Get(other_map, ts, 0))
    ELSE FDiv(FAdd(Get(self_map, ts, 0), Get(other_map, ts, 0)), 2)

\* the value combine stores for one timestamp of all_timestamps
CombineValue(self_map, other_map, ts, mode) ==
    IF ts \in DOMAIN self_map /\ ts \in DOMAIN other_map
    THEN IF mode = "sum"
         THEN FAdd(self_map[ts], other_map[ts])
         ELSE FDiv(FAdd(self_map[ts], other_map[ts]), 2)
    ELSE IF ts \in DOMAIN self_map THEN self_map[ts] ELSE other_map[ts]

\* the orders in which `for ts in all_timestamps` may visit a set
Orders(S) ==
    {f \in [1..Cardinality(S) -> S] : \A x \in S : \E i \in 1..Cardinality(S) : f[i] = x}

\* combine, for a valid mode; order is the iteration order of all_timestamps
combine(s, o, mode, order) ==
    LET self_map  == ToMap(s.values)
        other_map == ToMap(o.values)
        added     == [i \in 1..Len(order) |->
                         <<order[i], CombineValue(self_map, other_map, order[i], mode)>>]
    IN  sort(TimeSeries(added, ResultUnit(s.unit, o.unit)), TRUE)

(***************************************************************************)
(* The TimeSeries methods as actions on `self` (and `other`).              *)
(***************************************************************************)
Total == Len(self.values) + Len(other.values)

\* samples are added while the series are being built, before the first
\* aggregation: this keeps the stored values bounded
Filling == call.op \in {"init", "add"}

AddSelf(cap) ==
    /\ Filling
    /\ Total < cap
    /\ \E sample \in Samples :
          /\ self' = add(self, sample[1], sample[2])
          /\ call' = [op |-> "add"]
    /\ result' = None
    /\ raised' = NoErr
    /\ UNCHANGED other

AddOther(cap) ==
    /\ Filling
    /\ Total < cap
    /\ \E sample \in Samples :
          /\ other' = add(other, sample[1], sample[2])
          /\ call' = [op |-> "add"]
    /\ result' = None
    /\ raised' = NoErr
    /\ UNCHANGED self

GroupByMinutes ==
    /\ \E min \in Mins, mode \in Modes :
          /\ call' = [op |-> "group_by_minutes", min |-> min, mode |-> mode,
                      pre |-> self.values]
          /\ raised' = GroupByMinutesRaises(min, mode)
          /\ self' = IF GroupByMinutesRaises(min, mode) # NoErr THEN self
                     ELSE group_by_minutes(self, min, mode)
    /\ result' = None
    /\ UNCHANGED other

Combine ==
    /\ \E mode \in Modes :
          /\ call' = [op |-> "combine", mode |-> mode, self |-> self, other |-> other]
          /\ raised' = CombineRaises(mode)
          /\ IF CombineRaises(mode) # NoErr
             THEN result' = None
             ELSE \E order \in Orders(AllTimestamps(ToMap(self.values),
                                                    ToMap(other.values))) :
                     result' = combine(self, other, mode, order)
    /\ UNCHANGED <<self, other>>

TSIdle ==
    /\ self = TimeSeries(<<>>, NoneUnit)
    /\ other = TimeSeries(<<>>, NoneUnit)
    /\ result = None
    /\ raised = NoErr
    /\ call = [op |-> "init"]

OrchIdle ==
    /\ pc = "idle" /\ nsubmitted = 0 /\ fut = EmptyDict /\ data = EmptyDict
    /\ error = None /\ snapshot = None

FigIdle ==
    /\ metrics = None /\ assembled = None /\ figures = None

RepIdle == report = None

SqlIdle == run = None

InitTS ==
    /\ self = TimeSeries(<<>>, "bytes")
    /\ other = TimeSeries(<<>>, NoneUnit)
    /\ result = None
    /\ raised = NoErr
    /\ call = [op |-> "init"]
    /\ OrchIdle
    /\ FigIdle
    /\ RepIdle
    /\ SqlIdle

NextTS ==
    \/ (AddSelf(MaxLen) /\ UNCHANGED <<orchvars, figvars, repvars, sqlvars>>)
    \/ (AddOther(MaxLen) /\ UNCHANGED <<orchvars, figvars, repvars, sqlvars>>)
    \/ (GroupByMinutes /\ UNCHANGED <<orchvars, figvars, repvars, sqlvars>>)
    \/ (Combine /\ UNCHANGED <<orchvars, figvars, repvars, sqlvars>>)

SpecTS == InitTS /\ [][NextTS]_vars

InitUnit ==
    /\ \E self_unit \in Units, other_unit \in Units :
          /\ self = TimeSeries(<<>>, self_unit)
          /\ other = TimeSeries(<<>>, other_unit)
    /\ result = None
    /\ raised = NoErr
    /\ call = [op |-> "init"]
    /\ OrchIdle
    /\ FigIdle
    /\ RepIdle
    /\ SqlIdle

NextUnit ==
    \/ (AddSelf(MaxUnitLen) /\ UNCHANGED <<orchvars, figvars, repvars, sqlvars>>)
    \/ (AddOther(MaxUnitLen) /\ UNCHANGED <<orchvars, figvars, repvars, sqlvars>>)
    \/ (Combine /\ UNCHANGED <<orchvars, figvars, repvars, sqlvars>>)

SpecUnit == InitUnit /\ [][NextUnit]_vars

(***************************************************************************)
(* Properties of TimeSeries.group_by_minutes and TimeSeries.combine.       *)
(***************************************************************************)
\* the last call was group_by_minutes / combine and it returned normally
Grouped  == call.op = "group_by_minutes" /\ raised = NoErr
Combined == call.op = "combine" /\ raised = NoErr

\* b is the bucket boundary of timestamp t for bucket size m
IsBoundaryOf(b, t, m) ==
    /\ Hour(b) = Hour(t)
    /\ Minute(b) = (Minute(t) \div m) * m
    /\ Second(b) = 0
    /\ Microsecond(b) = 0

\* C5: after group_by_minutes(m, mode) with m > 0 the stored timestamps are
\* pairwise distinct and ascending, have second = microsecond = 0 and
\* minute = floor(minute / m) * m, and are exactly the bucket boundaries of the
\* input timestamps.
C5_GroupedTimestamps ==
    Grouped =>
        LET out == timestamps(self)
            pre == call.pre
            m   == call.min
        IN  /\ \A i, j \in 1..Len(out) : i < j => out[i] < out[j]
            /\ \A i \in 1..Len(out) :
                  /\ Second(out[i]) = 0
                  /\ Microsecond(out[i]) = 0
                  /\ Minute(out[i]) = (Minute(out[i]) \div m) * m
            /\ \A k \in 1..Len(pre) : \E i \in 1..Len(out) : IsBoundaryOf(out[i], pre[k][1], m)
            /\ \A i \in 1..Len(out) : \E k \in 1..Len(pre) : IsBoundaryOf(out[i], pre[k][1], m)

\* an unsorted input with sub-minute parts, two samples sharing a bucket and a
\* third in another bucket, has been grouped
C5_Witness ==
    /\ Grouped
    /\ Len(call.pre) = 3
    /\ call.pre[1][1] > call.pre[2][1]
    /\ \E k \in 1..3 : Second(call.pre[k][1]) # 0 /\ Microsecond(call.pre[k][1]) # 0
    /\ Len(self.values) = 2

\* the samples of pre that fall into bucket b
InBucket(pre, b, m) == {k \in 1..Len(pre) : IsBoundaryOf(b, pre[k][1], m)}

\* the value stored at timestamp b by group_by_minutes(m, "avg") on pre
AvgAt(pre, b, m) ==
    LET avg == NewValues(pre, m, "avg")
        i   == CHOOSE i \in 1..Len(avg) : avg[i][1] = b
    IN  avg[i][2]

Abs(x) == IF x < 0 THEN -x ELSE x

\* C6 as stated: the value group_by_minutes(m, "sum") stores at a bucket
\* equals count times the value group_by_minutes(m, "avg") stores there.
C6_SumIsCountTimesAvg ==
    (Grouped /\ call.mode = "sum") =>
        \A i \in 1..Len(self.values) :
            LET b     == self.values[i][1]
                count == Cardinality(InBucket(call.pre, b, call.min))
            IN  self.values[i][2] = count * AvgAt(call.pre, b, call.min)

\* C6 amended: the sum equals count times the avg whenever sum / count is a
\* representable float (always for count = 1); in every case count times the
\* avg differs from the sum by at most count half-ulps of the avg.
C6_SumIsCountTimesAvgRounded ==
    (Grouped /\ call.mode = "sum") =>
        \A i \in 1..Len(self.values) :
            LET b     == self.values[i][1]
                count == Cardinality(InBucket(call.pre, b, call.min))
                sum   == self.values[i][2]
                avg   == AvgAt(call.pre, b, call.min)
            IN  /\ count >= 1
                /\ Representable(sum, count) =>
                      (sum = count * avg /\ sum = FMul(count, avg))
                /\ 2 * Abs(count * avg - sum) <= count * Ulp(avg)

\* a bucket of two samples whose mean is representable, and a bucket of three
\* samples
C6_Witness ==
    /\ Grouped /\ call.mode = "sum"
    /\ \E i \in 1..Len(self.values) :
          LET count == Cardinality(InBucket(call.pre, self.values[i][1], call.min))
          IN  /\ count = 2
              /\ self.values[i][2] = 48
              /\ Representable(self.values[i][2], count)

\* the timestamps occurring in a list of values
StampSet(values) == {values[i][1] : i \in 1..Len(values)}

\* C7: combine returns a new series whose timestamps are exactly the union of
\* the two inputs' timestamps, each once, for mode sum and mode avg; neither
\* input is modified.
C7_CombineUnion ==
    Combined =>
        LET out == timestamps(result)
        IN  /\ StampSet(result.values) = StampSet(self.values) \cup StampSet(other.values)
            /\ \A i, j \in 1..Len(out) : i # j => out[i] # out[j]
            /\ Len(out) = Cardinality(StampSet(self.values) \cup StampSet(other.values))
            /\ self = call.self
            /\ other = call.other

\* the inputs share a timestamp, other has one of its own, and the inputs
\* hold more samples than the union has timestamps
C7_Witness ==
    /\ Combined
    /\ StampSet(self.values) \cap StampSet(other.values) # {}
    /\ StampSet(other.values) \ StampSet(self.values) # {}
    /\ Len(result.values) = 2
    /\ Total = 3

\* the value a dict built from values holds for ts: that of the last entry
LastValueAt(values, ts) ==
    LET last == CHOOSE i \in 1..Len(values) :
                    /\ values[i][1] = ts
                    /\ \A j \in (i + 1)..Len(values) : values[j][1] # ts
    IN  values[last][2]

\* C8: for a timestamp present in both inputs combine stores v1 + v2 (sum) or
\* (v1 + v2) / 2 (avg); for a timestamp present in only one input it stores
\* that input's value unchanged.
C8_CombineValues ==
    Combined =>
        \A i \in 1..Len(result.values) :
            LET ts   == result.values[i][1]
                v    == result.values[i][2]
                in1  == ts \in StampSet(self.values)
                in2  == ts \in StampSet(other.values)
                v1   == LastValueAt(self.values, ts)
                v2   == LastValueAt(other.values, ts)
            IN  /\ (in1 /\ in2 /\ call.mode = "sum") => v = FAdd(v1, v2)
                /\ (in1 /\ in2 /\ call.mode = "avg") => v = FDiv(FAdd(v1, v2), 2)
                /\ (in1 /\ ~in2) => v = v1
                /\ (in2 /\ ~in1) => v = v2

\* an avg combine of a timestamp the inputs share, with different values, and
\* a timestamp only one of them has
C8_Witness ==
    /\ Combined /\ call.mode = "avg"
    /\ \E i, j \in 1..Len(result.values) :
          /\ result.values[i][1] \in StampSet(self.values) \cap StampSet(other.values)
          /\ LastValueAt(self.values, result.values[i][1])
                # LastValueAt(other.values, result.values[i][1])
          /\ result.values[j][1] \in StampSet(self.values) \ StampSet(other.values)
          /\ result.values[j][2] > 0

\* C9 as stated: the unit of the combined series is self.unit whenever
\* self.unit is not None (the empty string included), and other.unit only when
\* self.unit is None.
C9_UnitPrefersSelf ==
    Combined =>
        result.unit = IF self.unit # NoneUnit THEN self.unit ELSE other.unit

\* C10: group_by_minutes raises when min <= 0 or the mode is neither sum nor
\* avg, combine raises when the mode is neither sum nor avg, and only then;
\* when they raise, the series are as before the call and nothing is
\* returned.
C10_InvalidArgumentsRaise ==
    /\ call.op = "group_by_minutes" =>
          /\ raised # NoErr <=> (call.min <= 0 \/ call.mode \notin {"sum", "avg"})
          /\ raised # NoErr => (self.values = call.pre /\ result = None)
    /\ call.op = "combine" =>
          /\ raised # NoErr <=> call.mode \notin {"sum", "avg"}
          /\ raised # NoErr => (self = call.self /\ other = call.other /\ result = None)

\* a non-empty series has refused a non-positive bucket size
C10_Witness ==
    /\ call.op = "group_by_minutes"
    /\ raised = "ValueError"
    /\ call.min <= 0
    /\ call.mode = "sum"
    /\ Len(self.values) = 3

\* the float sum of the samples pre[1..k] that fall into bucket b, added up
\* in list order
RECURSIVE SumInBucket(_, _, _, _)
SumInBucket(pre, k, b, m) ==
    IF k = 0 THEN 0
    ELSE IF IsBoundaryOf(b, pre[k][1], m)
         THEN FAdd(SumInBucket(pre, k - 1, b, m), pre[k][2])
         ELSE SumInBucket(pre, k - 1, b, m)

\* C20: group_by_minutes(m, mode) stores at each bucket the aggregate of
\* exactly the input samples whose timestamp maps to that bucket: their sum
\* for mode sum, their mean (the sum divided by their number) for mode avg;
\* the input need not be sorted and every input sample falls into exactly one
\* stored bucket.
C20_BucketAggregates ==
    Grouped =>
        /\ \A i \in 1..Len(self.values) :
              LET b       == self.values[i][1]
                  members == InBucket(call.pre, b, call.min)
                  sum     == SumInBucket(call.pre, Len(call.pre), b, call.min)
              IN  /\ members # {}
                  /\ call.mode = "sum" => self.values[i][2] = sum
                  /\ call.mode = "avg" =>
                        self.values[i][2] = FDiv(sum, Cardinality(members))
        /\ \A k \in 1..Len(call.pre) :
              Cardinality({i \in 1..Len(self.values) :
                              k \in InBucket(call.pre, self.values[i][1], call.min)}) = 1

\* an unsorted input of three samples was averaged into two buckets, one of
\* them holding the mean of two samples of different value
C20_Witness ==
    /\ Grouped /\ call.mode = "avg"
    /\ Len(call.pre) = 3
    /\ call.pre[1][1] > call.pre[2][1]
    /\ Len(self.values) = 2
    /\ \E i \in 1..2 :
          LET members == InBucket(call.pre, self.values[i][1], call.min)
          IN  /\ Cardinality(members) = 2
              /\ \E j, k \in members : call.pre[j][2] # call.pre[k][2]

(***************************************************************************)
(* TimeSeries.get_by_ts on a series whose values carry their Python type   *)
(* (bool, int or float).                                                   *)
(***************************************************************************)
\* the timestamps stored and looked up, and the values stored
GetStamps == { MkTs(0, 1, 30, 1), MkTs(0, 4, 0, 0) }
LookupStamps == GetStamps \cup { MkTs(1, 3, 0, 0) }
PyValues == { PyBool(0), PyBool(1), PyInt(0), PyFloat(8) }

AddValue ==
    /\ Len(self.values) < MaxGetLen
    /\ \E ts \in GetStamps, value \in PyValues :
          self' = add(self, ts, value)
    /\ call' = [op |-> "add"]
    /\ result' = None
    /\ raised' = NoErr
    /\ UNCHANGED other

GetByTs ==
    /\ \E ts \in LookupStamps :
          /\ call' = [op |-> "get_by_ts", ts |-> ts, pre |-> self]
          /\ result' = get_by_ts(self, ts)
    /\ raised' = NoErr
    /\ UNCHANGED <<self, other>>

InitGet ==
    /\ TSIdle
    /\ OrchIdle
    /\ FigIdle
    /\ RepIdle
    /\ SqlIdle

NextGet ==
    \/ (AddValue /\ UNCHANGED <<orchvars, figvars, repvars, sqlvars>>)
    \/ (GetByTs /\ UNCHANGED <<orchvars, figvars, repvars, sqlvars>>)

SpecGet == InitGet /\ [][NextGet]_vars

\* C11: get_by_ts(ts) returns the value of the first entry whose timestamp
\* equals ts; when no entry has that timestamp it returns the int 0 and does
\* not raise, also when the values of the series are bools; the series is
\* left as it was.
C11_GetByTs ==
    call.op = "get_by_ts" =>
        LET found == {i \in 1..Len(call.pre.values) : call.pre.values[i][1] = call.ts}
        IN  /\ raised = NoErr
            /\ self = call.pre
            /\ found = {} => (result.type = "int" /\ result.v = 0)
            /\ found # {} =>
                  \E i \in found :
                      /\ \A j \in 1..(i - 1) : j \notin found
                      /\ result = call.pre.values[i][2]

\* a lookup of an absent timestamp in a non-empty series of bools only
C11_Witness ==
    /\ call.op = "get_by_ts"
    /\ Len(self.values) = 2
    /\ \A i \in 1..Len(self.values) :
          self.values[i][1] # call.ts /\ self.values[i][2].type = "bool"
    /\ result = PyInt(0)

(***************************************************************************)
(* The loaders of GMonitoringCollector (src/src/g_monitoring_collector.py):*)
(* load_perquery_lock_time, load_perquery_IO_time,                         *)
(* load_psql_num_backends_by_state and load_perquery_latency.  A loader    *)
(* receives series_list, the raw time series the monitoring backend        *)
(* answers with; a raw series ts is [mlabels, rlabels, points] and a point *)
(* is the tuple (interval.end_time, value).  The dict `grouped` is the     *)
(* list of its (key, metric_obj) items in insertion order.                 *)
(***************************************************************************)
\* labels.get(name) of a label the series does not carry
NoLabel == "None"

\* x or ""
OrEmpty(x) == IF x = NoLabel \/ x = "" THEN "" ELSE x

Some(v) == [kind |-> "Some", v |-> v]

\* sorted(ts.points, key=lambda p: p.interval.end_time): a stable sort
sorted(points) == SortFrom(points, 1, TRUE, <<>>)

\* dt.replace(second=0, microsecond=0)
Truncated(dt) == Replace(dt, Minute(dt), 0, 0)

\* a delta that is not clamped at zero
LockTimeDeltaUnclamped(cur, last_p) ==
    IF last_p.kind = "None" THEN cur ELSE cur - last_p.v

\* the delta of one point of load_perquery_lock_time
LockTimeDelta(cur, last_p) ==
    IF last_p.kind = "None" THEN cur
    ELSE IF cur - last_p.v < 0 THEN 0 ELSE cur - last_p.v

\* a loop whose baseline stays at the highest reading seen: a clamped
\* difference does not advance it
RECURSIVE LockTimeAddedHighWater(_, _, _)
LockTimeAddedHighWater(points, k, last_p) ==
    IF k > Len(points) THEN <<>>
    ELSE LET dt  == Truncated(points[k][1])
             cur == points[k][2]
         IN  << <<dt, LockTimeDelta(cur, last_p)>> >>
                 \o LockTimeAddedHighWater(points, k + 1,
                        IF last_p.kind = "Some" /\ cur < last_p.v
                        THEN last_p ELSE Some(cur))

\* the loop `for p in points` of load_perquery_lock_time from point k on:
\* the (dt, delta) tuples it adds
RECURSIVE LockTimeAdded(_, _, _)
LockTimeAdded(points, k, last_p) ==
    IF k > Len(points) THEN <<>>
    ELSE LET dt  == Truncated(points[k][1])
             cur == points[k][2]
         IN  << <<dt, LockTimeDelta(cur, last_p)>> >>
                 \o LockTimeAdded(points, k + 1, Some(cur))

\* the loop `for p in points` of load_perquery_IO_time and of
\* load_psql_num_backends_by_state: the (dt, p.value.int64_value) tuples
Int64Added(points) ==
    [k \in 1..Len(points) |-> <<Truncated(points[k][1]), points[k][2]>>]

(***************************************************************************)
(* _percentile_from_explicit_buckets.  Its arithmetic is carried out on    *)
(* exact fractions <<numerator, denominator>> in lowest terms: the values  *)
(* it is compared with are built by the same operations in the same order, *)
(* so the rounding of the float operations does not tell them apart.       *)
(***************************************************************************)
RECURSIVE GCD(_, _)
GCD(a, b) == IF b = 0 THEN a ELSE GCD(b, a % b)

\* the fraction n / d (d > 0) in lowest terms
Frac(n, d) ==
    LET g == GCD(Abs(n), d)
    IN  <<n \div g, d \div g>>

FracOfInt(n) == <<n, 1>>

FracLeq(x, y) == x[1] * y[2] <= y[1] * x[2]
FracAdd(x, y) == Frac(x[1] * y[2] + y[1] * x[2], x[2] * y[2])
FracSub(x, y) == Frac(x[1] * y[2] - y[1] * x[2], x[2] * y[2])
FracMul(x, y) == Frac(x[1] * y[1], x[2] * y[2])
FracDivInt(x, c) == Frac(x[1], x[2] * c)        \* c > 0
FracMax(x, y) == IF FracLeq(x, y) THEN y ELSE x

\* sum(bucket_counts)
RECURSIVE SumOf(_, _)
SumOf(list, i) == IF i > Len(list) THEN 0 ELSE list[i] + SumOf(list, i + 1)

\* q clamped to [0, 1]
Clamped(q) ==
    IF FracLeq(q, FracOfInt(0)) THEN FracOfInt(0)
    ELSE IF FracLeq(FracOfInt(1), q) THEN FracOfInt(1)
    ELSE q

\* float(bounds[-1]) if bounds else 0.0
LastBound(bounds) == IF bounds # <<>> THEN FracOfInt(bounds[Len(bounds)]) ELSE FracOfInt(0)

\* an interpolation between the bounds of the next bucket
InterpolatedNextBucket(bounds, i, within) ==
    LET lower == FracOfInt(bounds[i + 1])
        upper == FracOfInt(bounds[IF i + 2 <= Len(bounds) THEN i + 2 ELSE i + 1])
    IN  FracAdd(lower, FracMul(within, FracSub(upper, lower)))

\* lower + within * (upper - lower) for the bucket of 0-based index i,
\* 1 <= i < len(bounds): lower = bounds[i - 1], upper = bounds[i]
Interpolated(bounds, i, within) ==
    LET lower == FracOfInt(bounds[i])
        upper == FracOfInt(bounds[i + 1])
    IN  FracAdd(lower, FracMul(within, FracSub(upper, lower)))

\* an estimate that takes the unbounded bucket to be as wide as the bucket
\* before it
InBucketEstimateExtrapolated(bounds, i, c, cum, target) ==
    LET within == FracDivInt(FracSub(target, FracOfInt(cum)), c)
        n      == Len(bounds)
    IN  IF i = 0
        THEN LET upper == IF bounds # <<>> THEN FracOfInt(bounds[1]) ELSE FracOfInt(0)
             IN  FracMax(FracOfInt(0), FracMul(within, upper))
        ELSE IF i >= n
        THEN FracAdd(LastBound(bounds),
                     FracMul(within, FracOfInt(IF n >= 2 THEN bounds[n] - bounds[n - 1]
                                               ELSE 0)))
        ELSE Interpolated(bounds, i, within)

\* what the function returns once target lies in the bucket of 0-based
\* index i, of count c, with cum counted before it
InBucketEstimate(bounds, i, c, cum, target) ==
    LET within == FracDivInt(FracSub(target, FracOfInt(cum)), c)
        n      == Len(bounds)
    IN  IF i = 0
        THEN LET upper == IF bounds # <<>> THEN FracOfInt(bounds[1]) ELSE FracOfInt(0)
             IN  FracMax(FracOfInt(0), FracMul(within, upper))
        ELSE IF i >= n THEN LastBound(bounds)
        ELSE Interpolated(bounds, i, within)

\* the loop `for i, c in enumerate(bucket_counts)` from 0-based index i on
RECURSIVE WalkBuckets(_, _, _, _, _)
WalkBuckets(bounds, bucket_counts, i, cum, target) ==
    IF i >= Len(bucket_counts) THEN LastBound(bounds)
    ELSE LET c == bucket_counts[i + 1]
         IN  IF c <= 0
             THEN WalkBuckets(bounds, bucket_counts, i + 1, cum + c, target)
             ELSE IF FracLeq(target, FracOfInt(cum + c))
                  THEN InBucketEstimate(bounds, i, c, cum, target)
                  ELSE WalkBuckets(bounds, bucket_counts, i + 1, cum + c, target)

_percentile_from_explicit_buckets(bounds, bucket_counts, q) ==
    LET total == SumOf(bucket_counts, 1)
    IN  IF total <= 0 THEN FracOfInt(0)
        ELSE WalkBuckets(bounds, bucket_counts, 0, 0,
                         FracMul(Clamped(q), FracOfInt(total)))

(***************************************************************************)
(* load_perquery_latency: the value of a point is a distribution           *)
(* [count, mean, bucket_counts, bounds]; bucket_counts and bounds are      *)
(* empty when the point carries no explicit buckets.                       *)
(***************************************************************************)
\* a - b of two floats, a >= b
FSub(a, b) == FloatOf(a - b, 1)

\* the estimate of the percentile as the float stored in a series
FloatOfFrac(x) == FloatOf(x[1], x[2])

\* bucket deltas that are not clamped at 0
BucketDeltasUnclamped(buckets, last_bucket_counts) ==
    [i \in 1..Len(buckets) |-> buckets[i] - last_bucket_counts[i]]

\* d if d > 0 else 0, for every pair of zip(buckets, last_bucket_counts)
BucketDeltas(buckets, last_bucket_counts) ==
    [i \in 1..Len(buckets) |->
        IF buckets[i] - last_bucket_counts[i] > 0
        THEN buckets[i] - last_bucket_counts[i] ELSE 0]

\* a decoder that clamps neither delta_count nor delta_sum_us
LatencyDeltaUnclamped(dist, last) ==
    LET cur_count  == dist.count
        cur_sum_us == FMul(cur_count, dist.mean)
        bounds     == dist.bounds
        buckets    == dist.bucket_counts
    IN  IF last.kind = "None"
        THEN [delta_count   |-> cur_count,
              delta_sum_us  |-> cur_sum_us,
              delta_buckets |-> buckets,
              delta_bounds  |-> bounds]
        ELSE LET layout_matches ==
                     /\ buckets # <<>> /\ last.v.bucket_counts # <<>>
                     /\ bounds # <<>> /\ last.v.bounds # <<>>
                     /\ Len(bounds) = Len(last.v.bounds)
                     /\ Len(buckets) = Len(last.v.bucket_counts)
             IN  [delta_count   |-> cur_count - last.v.count,
                  delta_sum_us  |-> IF cur_sum_us - last.v.sum_us < 0
                                    THEN 0 - FSub(last.v.sum_us, cur_sum_us)
                                    ELSE FSub(cur_sum_us, last.v.sum_us),
                  delta_buckets |-> IF layout_matches
                                    THEN BucketDeltas(buckets, last.v.bucket_counts)
                                    ELSE <<>>,
                  delta_bounds  |-> bounds]

\* delta_count, delta_sum_us, delta_buckets and delta_bounds of one point;
\* last is None before the first point of a raw series
LatencyDelta(dist, last) ==
    LET cur_count  == dist.count
        cur_sum_us == FMul(cur_count, dist.mean)
        bounds     == dist.bounds
        buckets    == dist.bucket_counts
    IN  IF last.kind = "None"
        THEN [delta_count   |-> cur_count,
              delta_sum_us  |-> cur_sum_us,
              delta_buckets |-> buckets,
              delta_bounds  |-> bounds]
        ELSE LET layout_matches ==
                     /\ buckets # <<>> /\ last.v.bucket_counts # <<>>
                     /\ bounds # <<>> /\ last.v.bounds # <<>>
                     /\ Len(bounds) = Len(last.v.bounds)
                     /\ Len(buckets) = Len(last.v.bucket_counts)
             IN  [delta_count   |-> IF cur_count - last.v.count < 0 THEN 0
                                    ELSE cur_count - last.v.count,
                  delta_sum_us  |-> IF cur_sum_us - last.v.sum_us < 0 THEN 0
                                    ELSE FSub(cur_sum_us, last.v.sum_us),
                  delta_buckets |-> IF layout_matches
                                    THEN BucketDeltas(buckets, last.v.bucket_counts)
                                    ELSE <<>>,
                  delta_bounds  |-> bounds]

\* mean_us of one point
MeanUs(delta) ==
    IF delta.delta_count > 0 THEN FDiv(delta.delta_sum_us, delta.delta_count) ELSE 0

\* a fallback that is the mean whatever delta_count is
Pr75UsFallbackMean(delta) ==
    IF delta.delta_count > 0 /\ delta.delta_buckets # <<>> /\ delta.delta_bounds # <<>>
    THEN FloatOfFrac(_percentile_from_explicit_buckets(delta.delta_bounds,
                                                   delta.delta_buckets, <<3, 4>>))
    ELSE MeanUs(delta)

\* pr75_us of one point
Pr75Us(delta) ==
    IF delta.delta_count > 0 /\ delta.delta_buckets # <<>> /\ delta.delta_bounds # <<>>
    THEN FloatOfFrac(_percentile_from_explicit_buckets(delta.delta_bounds,
                                                   delta.delta_buckets, <<3, 4>>))
    ELSE IF delta.delta_count = 1 THEN MeanUs(delta) ELSE 0

\* the loop `for p in points` of load_perquery_latency from point k on: what
\* it adds to perquery_count, perquery_latency_mean and perquery_latency_pr75
RECURSIVE LatencyAdded(_, _, _)
LatencyAdded(points, k, last) ==
    IF k > Len(points) THEN <<>>
    ELSE LET dt    == Truncated(points[k][1])
             dist  == points[k][2]
             delta == LatencyDelta(dist, last)
         IN  << [dt |-> dt, count |-> delta.delta_count,
                 mean_us |-> MeanUs(delta), pr75_us |-> Pr75Us(delta)] >>
                 \o LatencyAdded(points, k + 1,
                        Some([count         |-> dist.count,
                              sum_us        |-> FMul(dist.count, dist.mean),
                              bucket_counts |-> dist.bucket_counts,
                              bounds        |-> dist.bounds]))

(***************************************************************************)
(* Grouping of the raw series by their identifying labels, and the four    *)
(* loaders.  fn names the loader.                                          *)
(***************************************************************************)
Loaders == { "load_perquery_lock_time", "load_perquery_latency",
             "load_perquery_IO_time", "load_psql_num_backends_by_state" }

\* a key made of the query hash alone
KeyOfQueryHash(fn, ts) == << OrEmpty(ts.mlabels.query_hash) >>

\* key = (label or "", ...) of the raw series ts
Key(fn, ts) ==
    CASE fn \in {"load_perquery_lock_time", "load_perquery_latency"} ->
            << OrEmpty(ts.mlabels.query_hash), OrEmpty(ts.mlabels.querystring),
               OrEmpty(ts.mlabels.user), OrEmpty(ts.rlabels.location),
               OrEmpty(ts.rlabels.database) >>
      [] fn = "load_perquery_IO_time" ->
            << OrEmpty(ts.mlabels.query_hash), OrEmpty(ts.mlabels.io_type),
               OrEmpty(ts.mlabels.user), OrEmpty(ts.rlabels.database) >>
      [] fn = "load_psql_num_backends_by_state" ->
            << OrEmpty(ts.mlabels.state), OrEmpty(ts.mlabels.database),
               OrEmpty(ts.rlabels.region) >>

\* the metric object created for a key that grouped does not hold yet
NewMetric(fn, ts) ==
    CASE fn = "load_perquery_lock_time" ->
            [querystring |-> ts.mlabels.querystring,
             query_hash  |-> ts.mlabels.query_hash,
             user        |-> ts.mlabels.user,
             location    |-> ts.rlabels.location,
             database    |-> ts.rlabels.database,
             perquery_lock_time |-> TimeSeries(<<>>, "us")]
      [] fn = "load_perquery_latency" ->
            [querystring |-> ts.mlabels.querystring,
             query_hash  |-> ts.mlabels.query_hash,
             user        |-> ts.mlabels.user,
             location    |-> ts.rlabels.location,
             database    |-> ts.rlabels.database,
             perquery_count        |-> TimeSeries(<<>>, "count"),
             perquery_latency_mean |-> TimeSeries(<<>>, "us"),
             perquery_latency_pr75 |-> TimeSeries(<<>>, "us")]
      [] fn = "load_perquery_IO_time" ->
            [querystring |-> ts.mlabels.querystring,
             query_hash  |-> ts.mlabels.query_hash,
             io_type     |-> ts.mlabels.io_type,
             user        |-> ts.mlabels.user,
             database    |-> ts.rlabels.database,
             perquery_IO_time |-> TimeSeries(<<>>, "us")]
      [] fn = "load_psql_num_backends_by_state" ->
            [state    |-> ts.mlabels.state,
             database |-> ts.mlabels.database,
             region   |-> ts.rlabels.region,
             psql_num_backends_by_state |-> TimeSeries(<<>>, "counts")]

\* adds that measure the first point of a raw series against the last value
\* its metric object already holds
AddPointsContinued(fn, metric_obj, points) ==
    CASE fn = "load_perquery_lock_time" ->
            LET held == metric_obj.perquery_lock_time.values
            IN  [metric_obj EXCEPT !.perquery_lock_time.values =
                    @ \o LockTimeAdded(points, 1,
                             IF held = <<>> THEN None ELSE Some(held[Len(held)][2]))]
      [] fn = "load_perquery_latency" ->
            LET added == LatencyAdded(points, 1, None)
            IN  [metric_obj EXCEPT
                    !.perquery_count.values =
                        @ \o [k \in 1..Len(added) |-> <<added[k].dt, added[k].count>>],
                    !.perquery_latency_mean.values =
                        @ \o [k \in 1..Len(added) |-> <<added[k].dt, added[k].mean_us>>],
                    !.perquery_latency_pr75.values =
                        @ \o [k \in 1..Len(added) |-> <<added[k].dt, added[k].pr75_us>>]]
      [] fn = "load_perquery_IO_time" ->
            [metric_obj EXCEPT !.perquery_IO_time.values = @ \o Int64Added(points)]
      [] fn = "load_psql_num_backends_by_state" ->
            [metric_obj EXCEPT !.psql_num_backends_by_state.values =
                @ \o Int64Added(points)]

\* the adds of one raw series to its metric object; points are sorted
AddPoints(fn, metric_obj, points) ==
    CASE fn = "load_perquery_lock_time" ->
            [metric_obj EXCEPT !.perquery_lock_time.values =
                @ \o LockTimeAdded(points, 1, None)]
      [] fn = "load_perquery_latency" ->
            LET added == LatencyAdded(points, 1, None)
            IN  [metric_obj EXCEPT
                    !.perquery_count.values =
                        @ \o [k \in 1..Len(added) |-> <<added[k].dt, added[k].count>>],
                    !.perquery_latency_mean.values =
                        @ \o [k \in 1..Len(added) |-> <<added[k].dt, added[k].mean_us>>],
                    !.perquery_latency_pr75.values =
                        @ \o [k \in 1..Len(added) |-> <<added[k].dt, added[k].pr75_us>>]]
      [] fn = "load_perquery_IO_time" ->
            [metric_obj EXCEPT !.perquery_IO_time.values = @ \o Int64Added(points)]
      [] fn = "load_psql_num_backends_by_state" ->
            [metric_obj EXCEPT !.psql_num_backends_by_state.values =
                @ \o Int64Added(points)]

\* the loop `for ts in series_list` from the i-th raw series on
RECURSIVE GroupFrom(_, _, _, _)
GroupFrom(fn, series_list, i, grouped) ==
    IF i > Len(series_list) THEN grouped
    ELSE LET ts    == series_list[i]
             key   == Key(fn, ts)
             known == {k \in 1..Len(grouped) : grouped[k].key = key}
             at    == IF known = {} THEN Len(grouped) + 1 ELSE CHOOSE k \in known : TRUE
             items == IF known = {}
                      THEN Append(grouped, [key |-> key, metric_obj |-> NewMetric(fn, ts)])
                      ELSE grouped
         IN  GroupFrom(fn, series_list, i + 1,
                 [items EXCEPT ![at].metric_obj = AddPoints(fn, @, sorted(ts.points))])

\* a final sort that sorts perquery_count alone
ValuesSortedCountOnly(fn, obj) ==
    IF fn = "load_perquery_latency"
    THEN [obj EXCEPT !.perquery_count = sort(@, TRUE)]
    ELSE obj

\* obj.<series>.values.sort(key=lambda tv: tv[0]) at the end of a loader
ValuesSorted(fn, obj) ==
    CASE fn = "load_perquery_lock_time" ->
            [obj EXCEPT !.perquery_lock_time = sort(@, TRUE)]
      [] fn = "load_perquery_latency" ->
            [obj EXCEPT !.perquery_count        = sort(@, TRUE),
                        !.perquery_latency_mean = sort(@, TRUE),
                        !.perquery_latency_pr75 = sort(@, TRUE)]
      [] fn = "load_perquery_IO_time" ->
            [obj EXCEPT !.perquery_IO_time = sort(@, TRUE)]
      [] fn = "load_psql_num_backends_by_state" -> obj

\* result = list(grouped.values()), each series sorted
Loaded(fn, series_list) ==
    LET grouped == GroupFrom(fn, series_list, 1, <<>>)
    IN  [k \in 1..Len(grouped) |-> ValuesSorted(fn, grouped[k].metric_obj)]

load_perquery_lock_time(series_list) == Loaded("load_perquery_lock_time", series_list)

load_perquery_latency(series_list) == Loaded("load_perquery_latency", series_list)

load_perquery_IO_time(series_list) == Loaded("load_perquery_IO_time", series_list)

\* the placeholder returned when the backend answers with no series
NoData ==
    [state |-> "No Data", database |-> "No Data", region |-> "No Data",
     psql_num_backends_by_state |-> TimeSeries(<<>>, "counts")]

load_psql_num_backends_by_state(series_list) ==
    IF series_list = <<>> THEN << NoData >>
    ELSE Loaded("load_psql_num_backends_by_state", series_list)

\* the loader fn applied to the backend's answer
Load(fn, series_list) ==
    CASE fn = "load_perquery_lock_time" -> load_perquery_lock_time(series_list)
      [] fn = "load_perquery_latency" -> load_perquery_latency(series_list)
      [] fn = "load_perquery_IO_time" -> load_perquery_IO_time(series_list)
      [] fn = "load_psql_num_backends_by_state" ->
            load_psql_num_backends_by_state(series_list)

(***************************************************************************)
(* The backend's answers the loaders are run on.                           *)
(***************************************************************************)
\* the end_time of the k-th sample of a raw series: one every 40 seconds
\* (00:00:40, 00:01:20, 00:02:00, 00:02:40 ...)
SampleTime(k) == MkTs(0, 0, 0, 0) + 80 * k

\* the points of the samples `values`, taken from the first-th sample time
\* on, in the order the backend lists them: oldest first or newest first
PointsOf(values, first, newest_first) ==
    [k \in 1..Len(values) |->
        LET j == IF newest_first THEN Len(values) + 1 - k ELSE k
        IN  <<SampleTime(first + j - 1), values[j]>>]

\* the labels of a raw series
Labels(query_hash, user, location, io_type, state) ==
    [mlabels |-> [querystring |-> "select 1", query_hash |-> query_hash,
                  user |-> user, io_type |-> io_type, state |-> state,
                  database |-> "db1"],
     rlabels |-> [location |-> location, database |-> "db1", region |-> "eu"]]

RawSeries(labels, points) ==
    [mlabels |-> labels.mlabels, rlabels |-> labels.rlabels, points |-> points]

\* the second differs from the first by an empty instead of a missing user,
\* the third by its location, the fourth by its io_type and state
LabelSets == { Labels("h1", NoLabel, "eu", "read", "active"),
               Labels("h1", "",      "eu", "read", "active"),
               Labels("h1", NoLabel, "us", "read", "active"),
               Labels("h1", NoLabel, "eu", "write", "idle") }

\* cumulative readings of a counter
Readings == { 0, 50, 80, 100, 200, 250 }

ReadingSeqs == UNION { [1..n -> Readings] : n \in 0..MaxPoints }

\* one raw series of up to MaxPoints readings
DecodeInputs ==
    { << RawSeries(Labels("h1", "u1", "eu", "read", "active"),
                   PointsOf(readings, 1, newest_first)) >> :
          readings \in ReadingSeqs, newest_first \in BOOLEAN }

\* histograms and percentiles
BucketCounts == { 0, 2, 3, 5 }
BucketCountSeqs == UNION { [1..n -> BucketCounts] : n \in 1..MaxBuckets }
BoundsLists == { <<>>, <<10, 20>>, <<10, 20, 30>> }
Percentiles == { <<0, 1>>, <<1, 4>>, <<3, 4>>, <<1, 1>> }

\* a loader is called: the backend answers with one of inputs
LoadCall(fn, inputs) ==
    /\ call.op = "init"
    /\ \E series_list \in inputs :
          /\ call' = [op |-> fn, series_list |-> series_list]
          /\ result' = Load(fn, series_list)
    /\ raised' = NoErr
    /\ UNCHANGED <<self, other>>

PercentileCall ==
    /\ call.op = "init"
    /\ \E bounds \in BoundsLists, bucket_counts \in BucketCountSeqs, q \in Percentiles :
          /\ call' = [op |-> "_percentile_from_explicit_buckets", bounds |-> bounds,
                      bucket_counts |-> bucket_counts, q |-> q]
          /\ result' = _percentile_from_explicit_buckets(bounds, bucket_counts, q)
    /\ raised' = NoErr
    /\ UNCHANGED <<self, other>>

InitDecode ==
    /\ TSIdle
    /\ OrchIdle
    /\ FigIdle
    /\ RepIdle
    /\ SqlIdle

NextDecode ==
    \/ (LoadCall("load_perquery_lock_time", DecodeInputs)
            /\ UNCHANGED <<orchvars, figvars, repvars, sqlvars>>)
    \/ (LoadCall("load_perquery_IO_time", DecodeInputs)
            /\ UNCHANGED <<orchvars, figvars, repvars, sqlvars>>)
    \/ (PercentileCall /\ UNCHANGED <<orchvars, figvars, repvars, sqlvars>>)

SpecDecode == InitDecode /\ [][NextDecode]_vars

\* the points of a raw series in time order (their end_times are distinct)
TimeOrdered(points) ==
    [r \in 1..Len(points) |->
        points[CHOOSE k \in 1..Len(points) :
                   Cardinality({j \in 1..Len(points) : points[j][1] <= points[k][1]}) = r]]

\* the deltas of the time-ordered points pts: the raw value for the first,
\* max(0, raw - previous raw) for every later one
DeltasOf(pts) ==
    [k \in 1..Len(pts) |->
        IF k = 1 THEN pts[1][2]
        ELSE IF pts[k][2] - pts[k - 1][2] > 0 THEN pts[k][2] - pts[k - 1][2] ELSE 0]

\* the timestamps of the time-ordered points pts cut to whole minutes
MinutesOf(pts) ==
    [k \in 1..Len(pts) |-> MkTs(Hour(pts[k][1]), Minute(pts[k][1]), 0, 0)]

\* C12: load_perquery_lock_time emits one delta per sample of a raw series,
\* in time order: the raw value for the first sample and max(0, raw - previous
\* raw) for every later one, at the sample's timestamp cut to the minute.
C12_LockTimeDeltas ==
    call.op = "load_perquery_lock_time" =>
        LET pts == TimeOrdered(call.series_list[1].points)
        IN  /\ Len(result) = 1
            /\ DataOf(result[1].perquery_lock_time) = DeltasOf(pts)
            /\ timestamps(result[1].perquery_lock_time) = MinutesOf(pts)

\* the readings 0, 100, 250, 200, listed newest first, were decoded to
\* 0, 100, 150, 0
C12_Witness ==
    /\ call.op = "load_perquery_lock_time"
    /\ call.series_list[1].points =
          << <<SampleTime(4), 200>>, <<SampleTime(3), 250>>,
             <<SampleTime(2), 100>>, <<SampleTime(1), 0>> >>
    /\ DataOf(result[1].perquery_lock_time) = <<0, 100, 150, 0>>

\* C13 as stated: the series load_perquery_IO_time returns holds the deltas
\* of the cumulative readings (first delta = raw value, later delta =
\* max(0, raw - previous raw)) at timestamps cut to whole minutes.
C13_IOTimeIsDelta ==
    call.op = "load_perquery_IO_time" =>
        LET pts == TimeOrdered(call.series_list[1].points)
        IN  /\ Len(result) = 1
            /\ DataOf(result[1].perquery_IO_time) = DeltasOf(pts)
            /\ timestamps(result[1].perquery_IO_time) = MinutesOf(pts)

\* C27: the baseline of load_perquery_lock_time advances to the current raw
\* reading also when the difference was clamped: the delta after a counter
\* reset is measured from the post-reset reading; and for non-negative raw
\* readings every emitted delta is >= 0 and the emitted deltas add up to at
\* least the last raw reading.
C27_BaselineAdvances ==
    call.op = "load_perquery_lock_time" =>
        LET pts    == TimeOrdered(call.series_list[1].points)
            deltas == DataOf(result[1].perquery_lock_time)
        IN  /\ Len(deltas) = Len(pts)
            /\ \A k \in 3..Len(pts) :
                  pts[k - 1][2] < pts[k - 2][2] =>
                      /\ deltas[k - 1] = 0
                      /\ deltas[k] = IF pts[k][2] > pts[k - 1][2]
                                     THEN pts[k][2] - pts[k - 1][2] ELSE 0
            /\ \A k \in 1..Len(pts) : deltas[k] >= 0
            /\ pts # <<>> => SumOf(deltas, 1) >= pts[Len(pts)][2]

\* the readings 100, 50, 80 (a reset after the first) were decoded to
\* 100, 0, 30: the last delta is measured from the post-reset reading 50
C27_Witness ==
    /\ call.op = "load_perquery_lock_time"
    /\ LET pts == TimeOrdered(call.series_list[1].points)
       IN  /\ Len(pts) = 3
           /\ pts[1][2] = 100 /\ pts[2][2] = 50 /\ pts[3][2] = 80
    /\ DataOf(result[1].perquery_lock_time) = <<100, 0, 30>>

\* the cumulative count of the buckets of 0-based index 0..i
CumulativeCount(bucket_counts, i) ==
    SumOf([k \in 1..(i + 1) |-> bucket_counts[k]], 1)

\* C14: with target = q * total, the answer bucket is the first bucket i
\* whose cumulative count reaches or exceeds target; when it is an interior
\* bucket (1 <= i <= n - 1) the function returns bounds[i-1] +
\* ((target - cumulative count before i) / bucket_counts[i]) *
\* (bounds[i] - bounds[i-1]).
C14_PercentileInterior ==
    call.op = "_percentile_from_explicit_buckets" =>
        LET counts == call.bucket_counts
            n      == Len(call.bounds)
            total  == SumOf(counts, 1)
            target == FracMul(call.q, FracOfInt(total))
            reach  == {i \in 0..(Len(counts) - 1) :
                          FracLeq(target, FracOfInt(CumulativeCount(counts, i)))}
        IN  \A i \in reach :
                ((\A j \in reach : i <= j) /\ total > 0 /\ 1 <= i /\ i <= n - 1) =>
                    LET before == CumulativeCount(counts, i - 1)
                        within == FracDivInt(FracSub(target, FracOfInt(before)),
                                             counts[i + 1])
                        lower  == call.bounds[i]
                        upper  == call.bounds[i + 1]
                    IN  result = FracAdd(FracOfInt(lower),
                                         FracMul(within, FracOfInt(upper - lower)))

\* bounds 10, 20, 30 with counts 2, 3, 5 and q = 0.75 gave 25
C14_Witness ==
    /\ call.op = "_percentile_from_explicit_buckets"
    /\ call.bounds = <<10, 20, 30>>
    /\ call.bucket_counts = <<2, 3, 5>>
    /\ call.q = <<3, 4>>
    /\ result = <<25, 1>>

\* the 0-based index of the answer bucket: the first bucket of positive
\* count whose cumulative count reaches target
AnswerBucket(bucket_counts, target) ==
    LET reach == {i \in 0..(Len(bucket_counts) - 1) :
                     /\ bucket_counts[i + 1] > 0
                     /\ FracLeq(target, FracOfInt(CumulativeCount(bucket_counts, i)))}
    IN  CHOOSE i \in reach : \A j \in reach : i <= j

\* C24: with the answer bucket taken among the buckets of positive count
\* only (a bucket of count 0 is never the answer bucket), the estimate is
\* within_bucket_fraction * bounds[0] when the answer bucket is bucket 0,
\* bounds[n-1] when it is the last, unbounded bucket (index >= n), and the
\* interpolation between bounds[i-1] and bounds[i] otherwise; it never
\* exceeds bounds[n-1].
C24_PercentileEdges ==
    (call.op = "_percentile_from_explicit_buckets"
        /\ SumOf(call.bucket_counts, 1) > 0 /\ call.bounds # <<>>) =>
        LET counts == call.bucket_counts
            n      == Len(call.bounds)
            target == FracMul(call.q, FracOfInt(SumOf(counts, 1)))
            a      == AnswerBucket(counts, target)
            before == IF a = 0 THEN 0 ELSE CumulativeCount(counts, a - 1)
            within == FracDivInt(FracSub(target, FracOfInt(before)), counts[a + 1])
        IN  /\ counts[a + 1] > 0
            /\ a = 0 => result = FracMul(within, FracOfInt(call.bounds[1]))
            /\ a >= n => result = FracOfInt(call.bounds[n])
            /\ (1 <= a /\ a <= n - 1) =>
                  result = FracAdd(FracOfInt(call.bounds[a]),
                               FracMul(within,
                                   FracOfInt(call.bounds[a + 1] - call.bounds[a])))
            /\ FracLeq(result, FracOfInt(call.bounds[n]))

\* bounds 10, 20, 30 with counts 0, 0, 0, 5 and q = 0: the three empty
\* buckets, whose cumulative count 0 reaches the target 0, were passed over
\* and the unbounded bucket gave its lower bound 30
C24_Witness ==
    /\ call.op = "_percentile_from_explicit_buckets"
    /\ call.bounds = <<10, 20, 30>>
    /\ call.bucket_counts = <<0, 0, 0, 5>>
    /\ call.q = <<0, 1>>
    /\ result = <<30, 1>>

(***************************************************************************)
(* The loaders on answers of several raw series.                           *)
(***************************************************************************)
SeqsUpTo(S, n) == UNION { [1..k -> S] : k \in 0..n }

\* points of a counter: two readings listed newest first that fall into one
\* minute, and three readings listed oldest first
IntPointLists == { <<>>,
                   PointsOf(<<0, 100>>, 3, TRUE),
                   PointsOf(<<250, 200, 250>>, 2, FALSE) }

\* cumulative distributions: with explicit buckets, without any, and with
\* another bucket layout after a reset
DistA == [count |-> 2, mean |-> 8, bucket_counts |-> <<2, 0, 0, 0>>, bounds |-> <<10, 20, 30>>]
DistB == [count |-> 12, mean |-> 16, bucket_counts |-> <<4, 3, 5, 0>>, bounds |-> <<10, 20, 30>>]
DistC == [count |-> 13, mean |-> 16, bucket_counts |-> <<>>, bounds |-> <<>>]
DistD == [count |-> 5, mean |-> 8, bucket_counts |-> <<5, 0, 0>>, bounds |-> <<10, 20>>]

DistPointLists == { <<>>,
                    PointsOf(<<DistA, DistB>>, 3, TRUE),
                    PointsOf(<<DistB, DistC, DistD>>, 2, FALSE) }

Int64Inputs ==
    SeqsUpTo({ RawSeries(l, p) : l \in LabelSets, p \in IntPointLists }, MaxSeries)

DistInputs ==
    SeqsUpTo({ RawSeries(l, p) : l \in LabelSets, p \in DistPointLists }, MaxSeries)

InitLoad ==
    /\ TSIdle
    /\ OrchIdle
    /\ FigIdle
    /\ RepIdle
    /\ SqlIdle

NextLoad ==
    \/ (LoadCall("load_perquery_lock_time", Int64Inputs)
            /\ UNCHANGED <<orchvars, figvars, repvars, sqlvars>>)
    \/ (LoadCall("load_perquery_latency", DistInputs)
            /\ UNCHANGED <<orchvars, figvars, repvars, sqlvars>>)
    \/ (LoadCall("load_perquery_IO_time", Int64Inputs)
            /\ UNCHANGED <<orchvars, figvars, repvars, sqlvars>>)
    \/ (LoadCall("load_psql_num_backends_by_state", Int64Inputs)
            /\ UNCHANGED <<orchvars, figvars, repvars, sqlvars>>)

SpecLoad == InitLoad /\ [][NextLoad]_vars

\* a label as a string: a missing label is the empty string
Str(x) == IF x = NoLabel THEN "" ELSE x

\* the identity tuple a loader groups by, read from the labels m (metric)
\* and r (resource)
IdentityFrom(fn, m, r) ==
    CASE fn \in {"load_perquery_lock_time", "load_perquery_latency"} ->
            << Str(m.query_hash), Str(m.querystring), Str(m.user),
               Str(r.location), Str(r.database) >>
      [] fn = "load_perquery_IO_time" ->
            << Str(m.query_hash), Str(m.io_type), Str(m.user), Str(r.database) >>
      [] fn = "load_psql_num_backends_by_state" ->
            << Str(m.state), Str(m.database), Str(r.region) >>

\* the identity tuple of a raw series
Identity(fn, ts) == IdentityFrom(fn, ts.mlabels, ts.rlabels)

\* the identity tuple of a returned bundle, read from its label fields
BundleIdentity(fn, obj) ==
    CASE fn \in {"load_perquery_lock_time", "load_perquery_latency"} ->
            << Str(obj.query_hash), Str(obj.querystring), Str(obj.user),
               Str(obj.location), Str(obj.database) >>
      [] fn = "load_perquery_IO_time" ->
            << Str(obj.query_hash), Str(obj.io_type), Str(obj.user), Str(obj.database) >>
      [] fn = "load_psql_num_backends_by_state" ->
            << Str(obj.state), Str(obj.database), Str(obj.region) >>

\* the series of a bundle (the first of them for a latency bundle)
SeriesOf(fn, obj) ==
    CASE fn = "load_perquery_lock_time" -> obj.perquery_lock_time
      [] fn = "load_perquery_latency" -> obj.perquery_count
      [] fn = "load_perquery_IO_time" -> obj.perquery_IO_time
      [] fn = "load_psql_num_backends_by_state" -> obj.psql_num_backends_by_state

\* how many raw points of series_list carry the identity id
PointsOfIdentity(fn, series_list, id) ==
    SumOf([i \in 1..Len(series_list) |->
              IF Identity(fn, series_list[i]) = id THEN Len(series_list[i].points) ELSE 0], 1)

\* the bundles of bundles are one per identity tuple of series_list, and
\* each holds the points of the raw series of its identity
OnePerIdentity(fn, series_list, bundles) ==
    LET ids == {Identity(fn, series_list[i]) : i \in 1..Len(series_list)}
    IN  /\ Len(bundles) = Cardinality(ids)
        /\ \A id \in ids :
              Cardinality({k \in 1..Len(bundles) : BundleIdentity(fn, bundles[k]) = id}) = 1
        /\ \A k \in 1..Len(bundles) :
              Len(SeriesOf(fn, bundles[k]).values) =
                  PointsOfIdentity(fn, series_list, BundleIdentity(fn, bundles[k]))

\* C15 as stated: each of the four loaders returns one bundle per distinct
\* identity tuple of the raw series, raw series of equal identity go to the
\* same bundle, and every raw point is added to exactly one bundle.
C15_OneBundlePerIdentity ==
    call.op \in Loaders => OnePerIdentity(call.op, call.series_list, result)

\* C15 amended: as stated, except that load_psql_num_backends_by_state
\* returns a single placeholder bundle (state, database and region "No Data",
\* an empty series) when the backend answers with no raw series.
C15_OneBundlePerIdentityOrNoData ==
    call.op \in Loaders =>
        IF call.op = "load_psql_num_backends_by_state" /\ call.series_list = <<>>
        THEN /\ Len(result) = 1
             /\ result[1].state = "No Data"
             /\ result[1].database = "No Data"
             /\ result[1].region = "No Data"
             /\ result[1].psql_num_backends_by_state.values = <<>>
        ELSE OnePerIdentity(call.op, call.series_list, result)

\* two raw series whose labels differ by a missing and an empty user were
\* routed into one bundle that holds the points of both
C15_Witness ==
    /\ call.op = "load_perquery_lock_time"
    /\ Len(call.series_list) = 2
    /\ call.series_list[1].mlabels # call.series_list[2].mlabels
    /\ Len(call.series_list[1].points) = 2
    /\ Len(call.series_list[2].points) = 3
    /\ Len(result) = 1
    /\ Len(result[1].perquery_lock_time.values) = 5

(***************************************************************************)
(* GMonitoringCollector.generate_cloudsql_metrics                          *)
(* (src/src/g_monitoring_collector.py): every entry of fetch_map is        *)
(* submitted to a ThreadPoolExecutor with one worker per entry, the        *)
(* results are collected with as_completed, and the CloudSQLMetrics is     *)
(* built from the dict `data` after the pool has shut down.                *)
(***************************************************************************)
\* fetch_map: attr -> the bound method that loads it, in insertion order
FetchMap == <<
    <<"perquery_lock_time_metrics",         "load_perquery_lock_time">>,
    <<"perquery_latency_metrics",           "load_perquery_latency">>,
    <<"perquery_IO_time_metrics",           "load_perquery_IO_time">>,
    <<"wal_flushed_bytes_metrics",          "load_wal_flushed_bytes_count">>,
    <<"wal_inserted_bytes_metrics",         "load_wal_inserted_bytes_count">>,
    <<"psql_num_backends_by_state_metrics", "load_psql_num_backends_by_state">>,
    <<"cpu_usage_time",                     "load_cpu_usage_time">>,
    <<"cpu_utilization",                    "load_cpu_utilization">>,
    <<"disk_quota",                         "load_disk_quota">>,
    <<"disk_utilization",                   "load_disk_utilization">>,
    <<"disk_read_bytes",                    "load_disk_write_bytes">>,
    <<"disk_bytes_used_by_type",            "load_disk_bytes_used_by_type">>,
    <<"memory_quota",                       "load_memory_quota">>,
    <<"memory_components",                  "load_memory_components">> >>

\* the fields of the dataclass CloudSQLMetrics
Fields == {
    "perquery_lock_time_metrics", "perquery_latency_metrics",
    "perquery_IO_time_metrics", "wal_flushed_bytes_metrics",
    "wal_inserted_bytes_metrics", "psql_num_backends_by_state_metrics",
    "cpu_usage_time", "cpu_utilization", "cpu_reserved_cores",
    "disk_quota", "disk_utilization", "disk_read_bytes", "disk_read_ops",
    "disk_write_bytes", "disk_write_ops", "disk_bytes_used",
    "disk_bytes_used_by_type", "memory_quota", "memory_components",
    "pg_stat_statements_top_queries", "pg_stat_statements_heavy_wal" }

\* the entries that are dispatched: the first NumTasks of fetch_map
Tasks == 1..NumTasks

\* what a fetch function can return (the decoded backend answer) and the
\* reasons it can raise for
Payloads == {"empty", "points"}
Reasons  == {"backend unavailable", "KeyError"}

NoException == [kind |-> "None"]

\* the value a field holds when no keyword argument sets it
DefaultValue == [by |-> "default", payload |-> "empty"]

\* a fetch function returning normally / raising
Returned(fn, payload) == [by |-> fn, payload |-> payload]
Exception(fn, why)    == [kind |-> "Exception", why |-> why, raised_in |-> fn]

\* ex.submit(fn): a new pending Future
NewFuture(fn) ==
    [fn |-> fn, state |-> "pending", runs |-> 0,
     value |-> None, exception |-> NoException, yielded |-> 0]

\* a future_to_attr that maps every future to the attr of the last entry
FutureToAttrLast(i) == FetchMap[NumTasks][1]

\* future_to_attr[fut] for the future submitted i-th
FutureToAttr(i) == FetchMap[i][1]

\* a result() that hands back None for a failed future
ResultSwallowed(f) == [raises |-> FALSE, value |-> f.value, exception |-> NoException]

\* a result() that raises an error of its own for a failed future
ResultGeneric(f) ==
    IF f.exception # NoException
    THEN [raises |-> TRUE, value |-> None,
          exception |-> Exception("result", "a task failed")]
    ELSE [raises |-> FALSE, value |-> f.value, exception |-> NoException]

\* fut.result() of a finished future: its value, or its exception re-raised
Result(f) ==
    IF f.exception # NoException
    THEN [raises |-> TRUE, value |-> None, exception |-> f.exception]
    ELSE [raises |-> FALSE, value |-> f.value, exception |-> NoException]

\* the dataclass constructor called with the keyword arguments kwargs
CloudSQLMetrics(kwargs) ==
    [field \in Fields |-> IF field \in DOMAIN kwargs THEN kwargs[field] ELSE DefaultValue]

\* future_to_attr = {ex.submit(fn): attr for attr, fn in fetch_map.items()}
Submit ==
    /\ pc = "submit"
    /\ nsubmitted < NumTasks
    /\ fut' = Put(fut, nsubmitted + 1, NewFuture(FetchMap[nsubmitted + 1][2]))
    /\ nsubmitted' = nsubmitted + 1
    /\ pc' = IF nsubmitted + 1 = NumTasks THEN "collect" ELSE "submit"
    /\ UNCHANGED <<data, error, snapshot>>

\* a pool worker takes a pending work item
Start(i) ==
    /\ i \in DOMAIN fut
    /\ fut[i].state = "pending"
    /\ fut' = [fut EXCEPT ![i].state = "running", ![i].runs = @ + 1]
    /\ UNCHANGED <<pc, nsubmitted, data, error, snapshot>>

\* the fetch function returns
Finish(i) ==
    /\ i \in DOMAIN fut
    /\ fut[i].state = "running"
    /\ \E payload \in Payloads :
          fut' = [fut EXCEPT ![i].state = "finished",
                             ![i].value = Returned(fut[i].fn, payload)]
    /\ UNCHANGED <<pc, nsubmitted, data, error, snapshot>>

\* the fetch function raises
Fail(i) ==
    /\ i \in DOMAIN fut
    /\ fut[i].state = "running"
    /\ \E why \in Reasons :
          fut' = [fut EXCEPT ![i].state = "finished",
                             ![i].exception = Exception(fut[i].fn, why)]
    /\ UNCHANGED <<pc, nsubmitted, data, error, snapshot>>

\* how many futures as_completed has yielded (a future's `yielded` is its
\* position in that order, 0 while as_completed has not yielded it)
NumYielded == Cardinality({i \in DOMAIN fut : fut[i].yielded > 0})

\* one iteration of `for fut in as_completed(future_to_attr)`
Collect(i) ==
    /\ pc = "collect"
    /\ i \in DOMAIN fut
    /\ fut[i].state = "finished"
    /\ fut[i].yielded = 0
    /\ fut' = [fut EXCEPT ![i].yielded = NumYielded + 1]
    /\ LET r == Result(fut[i])
       IN  IF r.raises
           THEN /\ pc' = "exit_raising"
                /\ error' = r.exception
                /\ data' = data
           ELSE /\ pc' = pc
                /\ data' = Put(data, FutureToAttr(i), r.value)
                /\ error' = error
    /\ UNCHANGED <<nsubmitted, snapshot>>

\* as_completed is exhausted: the loop ends
EndLoop ==
    /\ pc = "collect"
    /\ \A i \in Tasks : fut[i].yielded > 0
    /\ pc' = "exit"
    /\ UNCHANGED <<nsubmitted, fut, data, error, snapshot>>

\* a pool whose __exit__ never returns while an exception passes through it
ShutdownOnSuccessOnly ==
    /\ pc = "exit"
    /\ \A i \in Tasks : fut[i].state = "finished"
    /\ pc' = "assemble"
    /\ UNCHANGED <<nsubmitted, fut, data, error, snapshot>>

\* a pool that is left without waiting for its workers
ShutdownNoWait ==
    /\ pc \in {"exit", "exit_raising"}
    /\ pc' = IF pc = "exit" THEN "assemble" ELSE "raised"
    /\ UNCHANGED <<nsubmitted, fut, data, error, snapshot>>

\* ThreadPoolExecutor.__exit__: shutdown(wait=True) joins every worker
Shutdown ==
    /\ pc \in {"exit", "exit_raising"}
    /\ \A i \in Tasks : fut[i].state = "finished"
    /\ pc' = IF pc = "exit" THEN "assemble" ELSE "raised"
    /\ UNCHANGED <<nsubmitted, fut, data, error, snapshot>>

\* return the CloudSQLMetrics built from data
Assemble ==
    /\ pc = "assemble"
    /\ snapshot' = CloudSQLMetrics(data)
    /\ pc' = "returned"
    /\ UNCHANGED <<nsubmitted, fut, data, error>>

Init ==
    /\ pc = "submit"
    /\ nsubmitted = 0
    /\ fut = EmptyDict
    /\ data = EmptyDict
    /\ error = NoException
    /\ snapshot = None
    /\ TSIdle
    /\ FigIdle
    /\ RepIdle
    /\ SqlIdle

Next ==
    \/ (Submit /\ UNCHANGED <<tsvars, figvars, repvars, sqlvars>>)
    \/ (\E i \in Tasks : Start(i) /\ UNCHANGED <<tsvars, figvars, repvars, sqlvars>>)
    \/ (\E i \in Tasks : Finish(i) /\ UNCHANGED <<tsvars, figvars, repvars, sqlvars>>)
    \/ (\E i \in Tasks : Fail(i) /\ UNCHANGED <<tsvars, figvars, repvars, sqlvars>>)
    \/ (\E i \in Tasks : Collect(i) /\ UNCHANGED <<tsvars, figvars, repvars, sqlvars>>)
    \/ (EndLoop /\ UNCHANGED <<tsvars, figvars, repvars, sqlvars>>)
    \/ (Shutdown /\ UNCHANGED <<tsvars, figvars, repvars, sqlvars>>)
    \/ (Assemble /\ UNCHANGED <<tsvars, figvars, repvars, sqlvars>>)

Spec == Init /\ [][Next]_vars

(***************************************************************************)
(* The figure builders of the report (src/src/figure_logic), called one    *)
(* after the other by analysis_entry (src/src/entry.py) on the one         *)
(* CloudSQLMetrics object.  `metrics` holds the series the builders touch; *)
(* `figures` holds the configured bucket size and the builders that ran.   *)
(***************************************************************************)
PerqueryLatencyMetric(query_hash, points) ==
    [query_hash            |-> query_hash,
     perquery_count        |-> TimeSeries(points, "count"),
     perquery_latency_mean |-> TimeSeries(points, "us"),
     perquery_latency_pr75 |-> TimeSeries(points, "us")]

PerqueryLockTimeMetric(query_hash, database, points) ==
    [query_hash         |-> query_hash,
     database           |-> database,
     perquery_lock_time |-> TimeSeries(points, "us")]

PerqueryIOTimeMetric(query_hash, points) ==
    [query_hash       |-> query_hash,
     perquery_IO_time |-> TimeSeries(points, "us")]

\* the point lists a loader can have decoded: one sample per minute
\* (timestamps truncated to the minute), in the order the loader left them
PointLists == {
    <<>>,
    << <<MkTs(0, 1, 0, 0), 8>>, <<MkTs(0, 4, 0, 0), 40>> >>,
    << <<MkTs(0, 4, 0, 0), 8>>, <<MkTs(1, 3, 0, 0), 8>> >> }

\* the lists of per-query bundles a loader can have returned
LatencyLists ==
    { <<>> }
    \cup { << PerqueryLatencyMetric("h1", p) >> : p \in PointLists }
    \cup { << PerqueryLatencyMetric("h1", p), PerqueryLatencyMetric("h1", p) >> :
              p \in PointLists \ {<<>>} }

LockLists ==
    { << PerqueryLockTimeMetric("h1", "db1", p) >> : p \in PointLists }
    \cup { << PerqueryLockTimeMetric("h1", "db1", p),
              PerqueryLockTimeMetric("h1", db, q) >> :
              p \in PointLists, q \in PointLists \ {<<>>}, db \in {"db1", "db2"} }

\* the bundles load_perquery_latency returns for one raw series, and for two
\* raw series of one identity
LoadedLatencyLists ==
    LET first  == Labels("h1", NoLabel, "eu", "read", "active")
        second == Labels("h1", "", "eu", "read", "active")
    IN  { load_perquery_latency(<< RawSeries(first, p) >>) : p \in DistPointLists }
        \cup { load_perquery_latency(<< RawSeries(first, p), RawSeries(second, q) >>) :
                  p \in DistPointLists \ {<<>>}, q \in DistPointLists \ {<<>>} }

\* the bucket sizes config.GROUP_BY_MINUTES may be set to
BucketSizes == {1, 5}

\* for key, item in group_query_hash.items(): the bundles the dict holds, the
\* last one of each query_hash
LatencyGrouped(list) ==
    {i \in 1..Len(list) :
        \A j \in (i + 1)..Len(list) : list[j].query_hash # list[i].query_hash}

\* the three in-place sorts and resamplings of sql_perquery_latency_metrics
LatencyResampled(q, min) ==
    [q EXCEPT
        !.perquery_count        = group_by_minutes(sort(@, TRUE), min, "sum"),
        !.perquery_latency_mean = group_by_minutes(sort(@, TRUE), min, "avg"),
        !.perquery_latency_pr75 = group_by_minutes(@, min, "sum")]

\* the key of the dict group_query_hash_database
LockKey(q) == <<q.query_hash, q.database>>

\* the bundles group_query_hash_database holds: the first of each key
LockGrouped(list) ==
    {i \in 1..Len(list) : \A j \in 1..(i - 1) : LockKey(list[j]) # LockKey(list[i])}

\* the first loop of sql_perquery_lock_time_metrics over list[from..]: every
\* later bundle of a key extends the series of the first bundle of that key
RECURSIVE LockExtended(_, _)
LockExtended(list, k) ==
    IF k > Len(list) THEN list
    ELSE IF k \in LockGrouped(list) THEN LockExtended(list, k + 1)
    ELSE LET first == CHOOSE i \in LockGrouped(list) : LockKey(list[i]) = LockKey(list[k])
         IN  LockExtended(
                 [list EXCEPT ![first].perquery_lock_time =
                                  extend(@, list[k].perquery_lock_time)],
                 k + 1)

\* sum(series.data())
RECURSIVE SumFrom(_, _)
SumFrom(values, i) ==
    IF i > Len(values) THEN 0 ELSE values[i][2] + SumFrom(values, i + 1)

TotalWait(q) == SumFrom(q.perquery_lock_time.values, 1)

\* items_with_totals.sort(key=total, reverse=True): the grouped bundles by
\* descending total, bundles of equal total in dict order
RECURSIVE ByTotalDescending(_, _)
ByTotalDescending(list, S) ==
    IF S = {} THEN <<>>
    ELSE LET top == CHOOSE i \in S :
                        \A j \in S : \/ TotalWait(list[i]) > TotalWait(list[j])
                                     \/ (TotalWait(list[i]) = TotalWait(list[j]) /\ i <= j)
         IN  <<top>> \o ByTotalDescending(list, S \ {top})

\* the Pareto loop: bundles are kept until the running total reaches
\* 0.9 * grand_total_us
RECURSIVE Kept(_, _, _, _, _)
Kept(list, order, k, running, grand) ==
    IF k > Len(order) \/ 10 * running >= 9 * grand THEN {}
    ELSE {order[k]} \cup Kept(list, order, k + 1, running + TotalWait(list[order[k]]), grand)

\* the bundles sql_perquery_lock_time_metrics resamples in place
LockKept(list) ==
    LET order == ByTotalDescending(list, LockGrouped(list))
        grand == SumFrom([k \in 1..Len(order) |-> <<k, TotalWait(list[order[k]])>>], 1)
    IN  IF grand <= 0 THEN {} ELSE Kept(list, order, 1, 0, grand)

\* which builder analysis_entry calls next
Turn == Len(figures.done) + 1

Built(name) == figures' = [figures EXCEPT !.done = Append(@, name)]

\* reads cpu_utilization, cpu_usage_time and perquery_count.get_by_ts
general_database_overview ==
    /\ Turn = 1
    /\ Built("general_database_overview")
    /\ UNCHANGED <<metrics, assembled>>

sql_perquery_latency_metrics ==
    /\ Turn = 2
    /\ metrics' = [metrics EXCEPT !.perquery_latency_metrics =
                      [i \in 1..Len(@) |->
                          IF i \in LatencyGrouped(@)
                          THEN LatencyResampled(@[i], figures.GROUP_BY_MINUTES)
                          ELSE @[i]]]
    /\ Built("sql_perquery_latency_metrics")
    /\ UNCHANGED assembled

\* resamples copied_item = item.perquery_IO_time.copy()
sql_perquery_io_time_metrics ==
    /\ Turn = 3
    /\ \A i \in 1..Len(metrics.perquery_IO_time_metrics) :
          LET copied_item == group_by_minutes(
                                 copy(metrics.perquery_IO_time_metrics[i].perquery_IO_time),
                                 figures.GROUP_BY_MINUTES, "sum")
          IN  copied_item.kind = "TimeSeries"
    /\ Built("sql_perquery_io_time_metrics")
    /\ UNCHANGED <<metrics, assembled>>

sql_perquery_lock_time_metrics ==
    /\ Turn = 4
    /\ LET extended == LockExtended(metrics.perquery_lock_time_metrics, 1)
           kept     == LockKept(extended)
       IN  metrics' = [metrics EXCEPT !.perquery_lock_time_metrics =
                          [i \in 1..Len(extended) |->
                              IF i \in kept
                              THEN [extended[i] EXCEPT !.perquery_lock_time =
                                       group_by_minutes(@, figures.GROUP_BY_MINUTES, "sum")]
                              ELSE extended[i]]]
    /\ Built("sql_perquery_lock_time_metrics")
    /\ UNCHANGED assembled

\* reads psql_num_backends_by_state and combines series of its own
network_overview ==
    /\ Turn = 5
    /\ Built("network_overview")
    /\ UNCHANGED <<metrics, assembled>>

wal_overview ==
    /\ Turn = 6
    /\ metrics' = [metrics EXCEPT
          !.wal_flushed_bytes_count =
              group_by_minutes(sort(@, TRUE), figures.GROUP_BY_MINUTES, "sum"),
          !.wal_inserted_bytes_count =
              group_by_minutes(sort(@, TRUE), figures.GROUP_BY_MINUTES, "sum")]
    /\ Built("wal_overview")
    /\ UNCHANGED assembled

InitFig ==
    /\ \E latency \in LatencyLists \cup LoadedLatencyLists,
          lock \in LockLists, io \in PointLists,
          wal \in PointLists :
          metrics = [perquery_latency_metrics   |-> latency,
                     perquery_lock_time_metrics |-> lock,
                     perquery_IO_time_metrics   |-> << PerqueryIOTimeMetric("h1", io) >>,
                     wal_flushed_bytes_count    |-> TimeSeries(wal, "bytes"),
                     wal_inserted_bytes_count   |-> TimeSeries(wal, "bytes")]
    /\ assembled = metrics
    /\ \E min \in BucketSizes : figures = [GROUP_BY_MINUTES |-> min, done |-> <<>>]
    /\ TSIdle
    /\ OrchIdle
    /\ RepIdle
    /\ SqlIdle

NextFig ==
    \/ (general_database_overview /\ UNCHANGED <<tsvars, orchvars, repvars, sqlvars>>)
    \/ (sql_perquery_latency_metrics /\ UNCHANGED <<tsvars, orchvars, repvars, sqlvars>>)
    \/ (sql_perquery_io_time_metrics /\ UNCHANGED <<tsvars, orchvars, repvars, sqlvars>>)
    \/ (sql_perquery_lock_time_metrics /\ UNCHANGED <<tsvars, orchvars, repvars, sqlvars>>)
    \/ (network_overview /\ UNCHANGED <<tsvars, orchvars, repvars, sqlvars>>)
    \/ (wal_overview /\ UNCHANGED <<tsvars, orchvars, repvars, sqlvars>>)

SpecFig == InitFig /\ [][NextFig]_vars

\* C4 as stated: the snapshot is immutable after assembly: no figure builder
\* changes the values of a TimeSeries or bundle the snapshot owns.
C4_SnapshotUnchanged == metrics = assembled

\* the three series of a latency bundle have equal length and the same
\* timestamp at every index
Aligned(q) ==
    /\ timestamps(q.perquery_count) = timestamps(q.perquery_latency_mean)
    /\ timestamps(q.perquery_latency_mean) = timestamps(q.perquery_latency_pr75)

\* C16: in every PerqueryLatencyMetric bundle perquery_count,
\* perquery_latency_mean and perquery_latency_pr75 have equal length and the
\* same timestamp at every index, both as load_perquery_latency returns them
\* and after sql_perquery_latency_metrics has resampled the three with
\* group_by_minutes.
C16_SiblingsAligned ==
    \A i \in 1..Len(metrics.perquery_latency_metrics) :
        Aligned(metrics.perquery_latency_metrics[i])

\* a bundle loaded from two raw series, whose series repeat a minute, has
\* been resampled into more than one bucket
C16_Witness ==
    /\ Len(figures.done) >= 2
    /\ \E i \in 1..Len(assembled.perquery_latency_metrics) :
          LET before == assembled.perquery_latency_metrics[i]
              after  == metrics.perquery_latency_metrics[i]
          IN  /\ Len(before.perquery_count.values) = 5
              /\ before.perquery_count.values[2][1] = before.perquery_count.values[3][1]
              /\ DataOf(before.perquery_count) # DataOf(before.perquery_latency_pr75)
              /\ Len(after.perquery_count.values) = 2
              /\ Len(after.perquery_latency_pr75.values) = 2

(***************************************************************************)
(* Properties of generate_cloudsql_metrics.                                *)
(***************************************************************************)
\* the futures whose fetch function raised
Failed == {i \in DOMAIN fut : fut[i].exception # NoException}

\* C1: every registered fetch function is dispatched exactly once and its
\* result is written to the field it is registered under and to no other
\* field; whatever the completion order, the returned CloudSQLMetrics has
\* exactly one populated field per registered category, holding that
\* function's result.
C1_OneFieldPerCategory ==
    /\ \A i \in DOMAIN fut : fut[i].runs <= 1
    /\ pc = "returned" =>
          /\ \A i \in Tasks :
                /\ fut[i].runs = 1
                /\ fut[i].value.by = FetchMap[i][2]
                /\ snapshot[FetchMap[i][1]] = fut[i].value
          /\ \A field \in Fields :
                (\A i \in Tasks : FetchMap[i][1] # field) => snapshot[field] = DefaultValue
          /\ Cardinality({field \in Fields : snapshot[field] # DefaultValue}) = NumTasks

\* the snapshot was returned after the futures were collected in the reverse
\* of their submission order
C1_Witness ==
    /\ pc = "returned"
    /\ \A i \in Tasks : fut[i].yielded = NumTasks + 1 - i
    /\ fut[1].value.payload # fut[NumTasks].value.payload

\* C2: if any fetch task raises, generate_cloudsql_metrics raises the error of
\* a failed task and never builds or returns a CloudSQLMetrics, whatever the
\* other tasks do.
C2_FailFast ==
    /\ Failed # {} => (snapshot = None /\ pc \notin {"assemble", "returned"})
    /\ pc = "raised" =>
          /\ snapshot = None
          /\ \E i \in Failed : error = fut[i].exception
    /\ pc \in {"exit", "assemble", "returned"} => error = NoException

\* the last registered task failed after every other result had been
\* collected
C2_Witness ==
    /\ pc = "raised"
    /\ Failed = {NumTasks}
    /\ Cardinality(DOMAIN data) = NumTasks - 1

\* the error e carries the registry name attr
Names(e, attr) == \E k \in DOMAIN e : e[k] = attr

\* C3 as stated: the error that leaves generate_cloudsql_metrics identifies
\* the metric category (registry name) that failed.
C3_ErrorNamesCategory ==
    pc = "raised" => \E i \in Failed : Names(error, FetchMap[i][1])

\* C3 amended: the error that leaves generate_cloudsql_metrics is one
\* exception, unchanged: the one raised in the failed task that as_completed
\* yielded (the last future it yielded).  It tells why and in which fetch
\* function it was raised; it does not carry the registry name.
C3_ErrorIsTaskException ==
    pc = "raised" =>
        \E i \in Failed :
            /\ fut[i].yielded = NumYielded
            /\ error = fut[i].exception
            /\ error.why \in Reasons
            /\ error.raised_in = FetchMap[i][2]
            /\ \A j \in Tasks : ~Names(error, FetchMap[j][1])

\* two tasks failed and one error left the function
C3_Witness ==
    /\ pc = "raised"
    /\ Cardinality(Failed) >= 2
    /\ \E i, j \in Failed : fut[i].exception.why # fut[j].exception.why

\* C19: generate_cloudsql_metrics builds the CloudSQLMetrics, or lets an
\* error leave, only after every dispatched fetch task has completed or
\* failed: no task is pending or running once the pool has been left.
C19_FanInBarrier ==
    (pc \in {"assemble", "returned", "raised"} \/ snapshot # None) =>
        /\ DOMAIN fut = Tasks
        /\ \A i \in Tasks : fut[i].state = "finished"

\* an error left the function after the pool had waited for a task that
\* as_completed never yielded
C19_Witness ==
    /\ pc = "raised"
    /\ \E i \in Tasks :
          /\ fut[i].yielded = 0
          /\ fut[i].state = "finished"
          /\ fut[i].exception = NoException

(***************************************************************************)
(* HotspotsReport (src/src/hotspots_report.py).  A Python str is the       *)
(* sequence of its characters; report is the list self._figures.           *)
(***************************************************************************)
LowerCase ==
    <<"a", "b", "c", "d", "e", "f", "g", "h", "i", "j", "k", "l", "m",
      "n", "o", "p", "q", "r", "s", "t", "u", "v", "w", "x", "y", "z">>

UpperCase ==
    <<"A", "B", "C", "D", "E", "F", "G", "H", "I", "J", "K", "L", "M",
      "N", "O", "P", "Q", "R", "S", "T", "U", "V", "W", "X", "Y", "Z">>

DigitChars == <<"0", "1", "2", "3", "4", "5", "6", "7", "8", "9">>

Whitespace == {" ", "\t", "\n"}

Range(s) == {s[i] : i \in 1..Len(s)}

\* s.strip(chars)
RECURSIVE LStrip(_, _)
LStrip(s, chars) ==
    IF s # <<>> /\ Head(s) \in chars THEN LStrip(Tail(s), chars) ELSE s

RECURSIVE RStrip(_, _)
RStrip(s, chars) ==
    IF s # <<>> /\ s[Len(s)] \in chars
    THEN RStrip(SubSeq(s, 1, Len(s) - 1), chars) ELSE s

Strip(s, chars) == RStrip(LStrip(s, chars), chars)

\* s.lower()
LowerChar(c) ==
    IF c \in Range(UpperCase)
    THEN LowerCase[CHOOSE i \in 1..26 : UpperCase[i] = c]
    ELSE c

Lower(s) == [i \in 1..Len(s) |-> LowerChar(s[i])]

\* re.sub(pattern + "{min_run,}", "-", s) for a pattern that is a character
\* class: every maximal run of at least min_run characters of the class
\* becomes one "-"
RECURSIVE SubRuns(_, _, _, _, _)
SubRuns(s, i, class, min_run, out) ==
    IF i > Len(s) THEN out
    ELSE IF s[i] \notin class THEN SubRuns(s, i + 1, class, min_run, out \o <<s[i]>>)
    ELSE LET end == CHOOSE j \in i..Len(s) :
                        /\ \A k \in i..j : s[k] \in class
                        /\ j = Len(s) \/ s[j + 1] \notin class
         IN  IF end - i + 1 >= min_run
             THEN SubRuns(s, end + 1, class, min_run, out \o <<"-">>)
             ELSE SubRuns(s, end + 1, class, min_run, out \o SubSeq(s, i, end))

\* the characters that occur in the model's strings
Alphabet == Range(LowerCase) \cup Range(UpperCase) \cup Range(DigitChars)
                \cup Whitespace \cup {"-"}

NotSlugChar == Alphabet \ (Range(LowerCase) \cup Range(DigitChars))

Figure == <<"f", "i", "g", "u", "r", "e">>

_slugify(s) ==
    LET s1 == Lower(Strip(s, Whitespace))
        s2 == SubRuns(s1, 1, NotSlugChar, 1, <<>>)
        s3 == Strip(SubRuns(s2, 1, {"-"}, 2, <<>>), {"-"})
    IN  IF s3 # <<>> THEN s3 ELSE Figure

FigureEntry(category, title, figure_html, id) ==
    [category |-> category, title |-> title, figure_html |-> figure_html, id |-> id]

\* FigureEntry.normalized_id
normalized_id(e) ==
    IF e.id.kind = "Some" /\ e.id.v # <<>> /\ Strip(e.id.v, Whitespace) # <<>>
    THEN _slugify(e.id.v)
    ELSE _slugify(e.category \o <<"-">> \o e.title)

\* str(n) of a natural number
RECURSIVE Decimal(_)
Decimal(n) ==
    IF n < 10 THEN <<DigitChars[n + 1]>>
    ELSE Decimal(n \div 10) \o <<DigitChars[(n % 10) + 1]>>

\* the loop of _unique_ids from the i-th figure on
RECURSIVE UniqueIdsFrom(_, _, _, _)
UniqueIdsFrom(_figures, i, used, ids) ==
    IF i > Len(_figures) THEN ids
    ELSE LET base == normalized_id(_figures[i])
             n    == Get(used, base, 0)
         IN  IF n = 0
             THEN UniqueIdsFrom(_figures, i + 1, Put(used, base, 1),
                                Append(ids, base))
             ELSE UniqueIdsFrom(_figures, i + 1, Put(used, base, n + 1),
                                Append(ids, base \o <<"-">> \o Decimal(n + 1)))

_unique_ids(_figures) == UniqueIdsFrom(_figures, 1, EmptyDict, <<>>)

\* the dict form of an entry: entry.get("id") is None without the key
FigureEntryOf(entry) ==
    IF entry.type = "dict"
    THEN FigureEntry(entry.category, entry.title, entry.figure_html,
                     IF "id" \in DOMAIN entry THEN entry.id ELSE None)
    ELSE FigureEntry(entry.category, entry.title, entry.figure_html, entry.id)

\* the checks of add_figure
AddFigureRaises(e) ==
    IF e.category = <<>> \/ e.title = <<>> THEN "ValueError"
    ELSE IF Strip(e.figure_html, Whitespace) = <<>> THEN "ValueError"
    ELSE NoErr

Ids == {None, Some(<<"a">>), Some(<<"A", " ">>), Some(<<" ">>), Some(<<"-">>)}

\* entries of category "a" and title "2" that pass the checks of add_figure
ValidEntries ==
    {[type |-> "FigureEntry", category |-> <<"a">>, title |-> <<"2">>,
      figure_html |-> <<"d">>, id |-> id] : id \in Ids}
    \cup {[type |-> "dict", category |-> <<"a">>, title |-> <<"2">>,
           figure_html |-> <<"d">>]}

\* entries without a category, without a title, with a blank fragment
InvalidEntries ==
    {[type |-> "FigureEntry", category |-> <<>>, title |-> <<"2">>,
      figure_html |-> <<"d">>, id |-> None],
     [type |-> "dict", category |-> <<"a">>, title |-> <<>>,
      figure_html |-> <<"d">>, id |-> Some(<<"a">>)],
     [type |-> "FigureEntry", category |-> <<"a">>, title |-> <<"2">>,
      figure_html |-> <<" ">>, id |-> Some(<<"a">>)]}

FigureInputs == ValidEntries \cup InvalidEntries

add_figure ==
    /\ Len(report) < MaxFigures
    /\ \E entry \in FigureInputs :
          LET e == FigureEntryOf(entry)
          IN  /\ call' = [op |-> "add_figure", entry |-> entry]
              /\ raised' = AddFigureRaises(e)
              /\ IF AddFigureRaises(e) # NoErr
                 THEN /\ report' = report
                      /\ result' = None
                 ELSE /\ report' = Append(report, e)
                      /\ result' = _unique_ids(report')[Len(report')]
    /\ UNCHANGED <<self, other>>

\* HotspotsReport.__init__
InitReport ==
    /\ TSIdle
    /\ OrchIdle
    /\ FigIdle
    /\ SqlIdle
    /\ report = <<>>

NextReport ==
    \/ (add_figure /\ UNCHANGED <<orchvars, figvars, sqlvars>>)

SpecReport == InitReport /\ [][NextReport]_vars

\* C17: after any sequence of add_figure calls the ids that _unique_ids
\* assigns to the figures of the report are pairwise distinct, also when the
\* normalized id of an entry equals the suffixed id generated for an earlier
\* duplicate.
C17_IdsPairwiseDistinct ==
    LET ids == _unique_ids(report)
    IN  \A i, j \in 1..Len(ids) : i # j => ids[i] # ids[j]

(***************************************************************************)
(* CloudSQLPostgres.execute_sql_n_concurrent_async                         *)
(* (src/src/cloudsql_postgres.py).  run holds the locals of one call:      *)
(* chunks, the per_exec list of every worker thread, and counters of the   *)
(* conn.execute and conn.commit calls made so far.                         *)
(***************************************************************************)
\* a worker count that is not capped by the number of executions
WorkerCountUncapped(workers, times) == workers

\* worker_count = min(workers, times)
WorkerCount(workers, times) == IF workers <= times THEN workers ELSE times

\* chunks = [base + (1 if i < rem else 0) for i in range(worker_count)]
Chunks(workers, times) ==
    LET worker_count == WorkerCount(workers, times)
        base == times \div worker_count
        rem  == times % worker_count
    IN  [k \in 1..worker_count |-> base + (IF k - 1 < rem THEN 1 ELSE 0)]

\* [... for n in chunks if n > 0]
Positive(n) == n > 0

TasksOf(chunks) == SelectSeq(chunks, Positive)

\* the checks at the head of execute_sql_n_concurrent_async
ExecuteRaises(sql, times, workers) ==
    IF times < 0 THEN "ValueError"
    ELSE IF workers <= 0 THEN "ValueError"
    ELSE IF Strip(sql.text, Whitespace) = <<>> THEN "ValueError"
    ELSE NoErr

\* statements: one that returns rows, one that does not, a blank one
Select == [text |-> <<"s">>, returns_rows |-> TRUE]

Vacuum == [text |-> <<"v">>, returns_rows |-> FALSE]

Blank == [text |-> <<" ">>, returns_rows |-> FALSE]

Statements == {Select, Vacuum, Blank}

\* result.fetchall() of the statement that returns rows
Rows == <<"row">>

\* the call up to the creation of the worker tasks
execute_sql_n_concurrent_async ==
    /\ run.state = "idle"
    /\ \E sql \in Statements, times \in -1..MaxTimes, workers \in 0..MaxWorkers,
          autocommit \in BOOLEAN, return_rows \in BOOLEAN :
          /\ call' = [op |-> "execute_sql_n_concurrent_async", sql |-> sql,
                      times |-> times, workers |-> workers,
                      autocommit |-> autocommit, return_rows |-> return_rows]
          /\ raised' = ExecuteRaises(sql, times, workers)
          /\ IF ExecuteRaises(sql, times, workers) # NoErr
             THEN /\ run' = [run EXCEPT !.state = "raised"]
                  /\ result' = None
             ELSE IF times = 0
             THEN /\ run' = [run EXCEPT !.state = "returned"]
                  /\ result' = <<>>
             ELSE LET tasks == TasksOf(Chunks(workers, times))
                  IN  IF tasks = <<>>
                      THEN /\ run' = [run EXCEPT !.state = "returned",
                                                 !.chunks = Chunks(workers, times)]
                           /\ result' = <<>>
                      ELSE /\ run' = [run EXCEPT
                                        !.state = "running",
                                        !.chunks = Chunks(workers, times),
                                        !.tasks = tasks,
                                        !.per_exec = [w \in 1..Len(tasks) |-> <<>>]]
                           /\ result' = None
    /\ UNCHANGED <<self, other>>

\* one iteration of the loop of _run_worker_per_exec in the thread of task w
Execute(w) ==
    /\ run.state = "running"
    /\ w \in 1..Len(run.tasks)
    /\ Len(run.per_exec[w]) < run.tasks[w]
    /\ run' = [run EXCEPT
                 !.executed = @ + 1,
                 !.commits = IF ~call.sql.returns_rows /\ ~call.autocommit
                             THEN @ + 1 ELSE @,
                 !.per_exec[w] = Append(@, IF call.sql.returns_rows /\ call.return_rows
                                           THEN Rows ELSE <<>>)]
    /\ UNCHANGED <<self, other, result, raised, call>>

\* await asyncio.gather(*tasks): every worker has returned its per_exec
Gather ==
    /\ run.state = "running"
    /\ \A w \in 1..Len(run.tasks) : Len(run.per_exec[w]) = run.tasks[w]
    /\ run' = [run EXCEPT !.state = "returned"]
    /\ result' = run.per_exec
    /\ UNCHANGED <<self, other, raised, call>>

\* before the call
InitSql ==
    /\ TSIdle
    /\ OrchIdle
    /\ FigIdle
    /\ RepIdle
    /\ run = [state |-> "idle", chunks |-> <<>>, tasks |-> <<>>,
              per_exec |-> <<>>, executed |-> 0, commits |-> 0]

NextSql ==
    \/ (execute_sql_n_concurrent_async /\ UNCHANGED <<orchvars, figvars, repvars>>)
    \/ (\E w \in 1..MaxWorkers : Execute(w) /\ UNCHANGED <<orchvars, figvars, repvars>>)
    \/ (Gather /\ UNCHANGED <<orchvars, figvars, repvars>>)

SpecSql == InitSql /\ [][NextSql]_vars

SumSeq(s) == SumOf(s, 1)

\* C18: with times >= 1 and workers >= 1 the call uses min(workers, times)
\* workers, every worker gets at least one execution, the counts of two
\* workers differ by at most one and add up to times; the returned list has
\* one element per worker used (holding one entry per execution of that
\* worker); times = 0 returns the empty list and executes nothing.
C18_NearEqualSplit ==
    /\ (run.state \in {"running", "returned"} /\ call.times >= 1) =>
          LET used == IF call.workers <= call.times THEN call.workers ELSE call.times
          IN  /\ Len(run.chunks) = used
              /\ Len(run.tasks) = used
              /\ \A i \in 1..used : run.chunks[i] >= 1 /\ run.tasks[i] = run.chunks[i]
              /\ \A i, j \in 1..used : run.chunks[i] - run.chunks[j] <= 1
              /\ SumSeq(run.chunks) = call.times
              /\ run.executed <= call.times
              /\ run.state = "returned" =>
                    /\ Len(result) = used
                    /\ \A w \in 1..used : Len(result[w]) = run.chunks[w]
                    /\ run.executed = call.times
    /\ (run.state # "idle" /\ raised = NoErr /\ call.times = 0) =>
          /\ run.state = "returned"
          /\ result = <<>>
          /\ run.executed = 0

\* five executions on three workers returned: chunks 2, 2, 1
C18_Witness ==
    /\ run.state = "returned"
    /\ call.times = 5 /\ call.workers = 3
    /\ run.chunks = <<2, 2, 1>>
    /\ Len(result) = 3
    /\ run.executed = 5

(***************************************************************************)
(* load_perquery_latency on one raw series of cumulative distributions.    *)
(* Every distribution is one the monitoring API can return: its count is   *)
(* the sum of its bucket counts whenever it carries bucket counts, and     *)
(* trailing empty buckets may be left out.                                 *)
(***************************************************************************)
Bounds3 == <<10, 20, 30>>

Dist(count, mean, bucket_counts, bounds) ==
    [count |-> count, mean |-> mean, bucket_counts |-> bucket_counts, bounds |-> bounds]

\* five fast executions; after a reset of the statement's counters seven
\* slower ones; one more of them in the unbounded bucket, the mean sinking;
\* a reading without bucket options; a reading whose trailing empty buckets
\* are left out; a reading with another bucket layout
Dists == { Dist(5, 8, <<5, 0, 0, 0>>, Bounds3),
           Dist(7, 16, <<0, 4, 3, 0>>, Bounds3),
           Dist(8, 8, <<0, 4, 3, 1>>, Bounds3),
           Dist(9, 16, <<>>, <<>>),
           Dist(3, 8, <<3>>, Bounds3),
           Dist(1, 8, <<0, 1, 0>>, <<10, 20>>) }

DistSeqs == UNION { [1..n -> Dists] : n \in 0..MaxDists }

LatencyInputs ==
    { << RawSeries(Labels("h1", "u1", "eu", "read", "active"),
                   PointsOf(dists, 1, newest_first)) >> :
          dists \in DistSeqs, newest_first \in BOOLEAN }

InitLatency ==
    /\ TSIdle
    /\ OrchIdle
    /\ FigIdle
    /\ RepIdle
    /\ SqlIdle

NextLatency ==
    \/ (LoadCall("load_perquery_latency", LatencyInputs)
            /\ UNCHANGED <<orchvars, figvars, repvars, sqlvars>>)

SpecLatency == InitLatency /\ [][NextLatency]_vars

\* the distributions of the raw series of the call, in time order
Samples1 ==
    LET pts == TimeOrdered(call.series_list[1].points)
    IN  [k \in 1..Len(pts) |-> pts[k][2]]

\* mean * count of a distribution
SumUsOf(dist) == FMul(dist.count, dist.mean)

\* max(0, cur.count - prev.count); the raw count for the first sample
DeltaCountAt(dists, k) ==
    IF k = 1 THEN dists[1].count
    ELSE IF dists[k].count > dists[k - 1].count
         THEN dists[k].count - dists[k - 1].count ELSE 0

\* max(0, cur.mean * cur.count - prev.mean * prev.count); the raw sum for
\* the first sample
DeltaSumAt(dists, k) ==
    IF k = 1 THEN SumUsOf(dists[1])
    ELSE IF SumUsOf(dists[k]) > SumUsOf(dists[k - 1])
         THEN FSub(SumUsOf(dists[k]), SumUsOf(dists[k - 1])) ELSE 0

\* delta_sum / delta_count if delta_count > 0 else 0
MeanPerIntervalAt(dists, k) ==
    IF DeltaCountAt(dists, k) > 0
    THEN FDiv(DeltaSumAt(dists, k), DeltaCountAt(dists, k)) ELSE 0

\* C21: load_perquery_latency emits for every sample of a raw series
\* delta_count = max(0, cur.count - prev.count), and the mean of delta_sum =
\* max(0, cur.mean * cur.count - prev.mean * prev.count) over delta_count;
\* for the first sample delta_count, delta_sum and the delta buckets are the
\* raw values of that sample (its p75 is the p75 of its raw histogram).
C21_LatencyDeltas ==
    call.op = "load_perquery_latency" =>
        LET dists == Samples1
        IN  /\ Len(result) = 1
            /\ DataOf(result[1].perquery_count) =
                  [k \in 1..Len(dists) |-> DeltaCountAt(dists, k)]
            /\ DataOf(result[1].perquery_latency_mean) =
                  [k \in 1..Len(dists) |-> MeanPerIntervalAt(dists, k)]
            /\ (/\ dists # <<>>
                /\ dists[1].count > 0
                /\ dists[1].bucket_counts # <<>>
                /\ dists[1].bounds # <<>>) =>
                  DataOf(result[1].perquery_latency_pr75)[1] =
                      FloatOfFrac(_percentile_from_explicit_buckets(
                          dists[1].bounds, dists[1].bucket_counts, <<3, 4>>))

\* counts 5, 7, 8 with sums 40, 112, 64, listed newest first, were decoded
\* to the counts 5, 2, 1, the first mean 8 and the last mean 0 (a clamped sum)
C21_Witness ==
    /\ call.op = "load_perquery_latency"
    /\ Len(call.series_list[1].points) = 3
    /\ call.series_list[1].points[1][1] > call.series_list[1].points[2][1]
    /\ DataOf(result[1].perquery_count) = <<5, 2, 1>>
    /\ DataOf(result[1].perquery_latency_mean)[1] = 8
    /\ DataOf(result[1].perquery_latency_mean)[2] > 0
    /\ DataOf(result[1].perquery_latency_mean)[3] = 0

\* the layouts of two consecutive samples match in length
SameLayout(cur, prev) ==
    /\ Len(cur.bounds) = Len(prev.bounds)
    /\ Len(cur.bucket_counts) = Len(prev.bucket_counts)

\* max(0, cur.bucket_counts[i] - prev.bucket_counts[i]) for every bucket
ClampedBucketDeltas(cur, prev) ==
    [i \in 1..Len(cur.bucket_counts) |->
        IF cur.bucket_counts[i] > prev.bucket_counts[i]
        THEN cur.bucket_counts[i] - prev.bucket_counts[i] ELSE 0]

\* the p75 of an interval whose delta histogram is delta_buckets over bounds
P75Of(dists, k, delta_buckets) ==
    IF DeltaCountAt(dists, k) > 0 /\ delta_buckets # <<>> /\ dists[k].bounds # <<>>
    THEN FloatOfFrac(_percentile_from_explicit_buckets(dists[k].bounds,
                                                   delta_buckets, <<3, 4>>))
    ELSE IF DeltaCountAt(dists, k) = 1 THEN MeanPerIntervalAt(dists, k) ELSE 0

\* C22: for two consecutive samples whose layouts match in length the delta
\* histogram is max(0, cur.bucket_counts[i] - prev.bucket_counts[i]) bucket
\* by bucket; when the lengths differ it is empty; in both cases the next
\* sample is decoded against the current sample.  (The delta histogram is
\* observed through the p75 emitted for the interval.)
C22_BucketDeltas ==
    call.op = "load_perquery_latency" =>
        LET dists == Samples1
        IN  \A k \in 2..Len(dists) :
                DataOf(result[1].perquery_latency_pr75)[k] =
                    P75Of(dists, k,
                          IF SameLayout(dists[k], dists[k - 1])
                          THEN ClampedBucketDeltas(dists[k], dists[k - 1])
                          ELSE <<>>)

\* the second sample changed the layout (an empty delta histogram); the
\* third has the layout of the second, a bucket that sank, and a p75 taken
\* from its clamped bucket deltas against the second
C22_Witness ==
    /\ call.op = "load_perquery_latency"
    /\ Len(Samples1) = 3
    /\ ~SameLayout(Samples1[2], Samples1[1])
    /\ SameLayout(Samples1[3], Samples1[2])
    /\ \E i \in 1..Len(Samples1[3].bucket_counts) :
          Samples1[3].bucket_counts[i] < Samples1[2].bucket_counts[i]
    /\ DataOf(result[1].perquery_count)[3] > 1
    /\ DataOf(result[1].perquery_latency_pr75)[3] > 0

\* the delta histogram of the k-th sample
DeltaBucketsAt(dists, k) ==
    IF k = 1 THEN dists[1].bucket_counts
    ELSE IF SameLayout(dists[k], dists[k - 1])
         THEN ClampedBucketDeltas(dists[k], dists[k - 1])
         ELSE <<>>

\* p * delta_count clamped to [0, total]
TargetOfDeltaCount(p, delta_count, total) ==
    LET target == FracMul(p, FracOfInt(delta_count))
    IN  IF FracLeq(target, FracOfInt(0)) THEN FracOfInt(0)
        ELSE IF FracLeq(FracOfInt(total), target) THEN FracOfInt(total)
        ELSE target

\* C23 as stated: the p75 emitted for an interval with a usable delta
\* histogram is the estimate at the target rank 0.75 * delta_count, clamped
\* to [0, total], also when delta_count differs from the sum total of the
\* delta bucket counts.
C23_TargetFromDeltaCount ==
    call.op = "load_perquery_latency" =>
        LET dists == Samples1
        IN  \A k \in 1..Len(dists) :
                LET delta_buckets == DeltaBucketsAt(dists, k)
                    delta_count   == DeltaCountAt(dists, k)
                    total         == SumOf(delta_buckets, 1)
                IN  (/\ delta_count > 0
                     /\ delta_buckets # <<>>
                     /\ dists[k].bounds # <<>>
                     /\ total > 0) =>
                        DataOf(result[1].perquery_latency_pr75)[k] =
                            FloatOfFrac(WalkBuckets(dists[k].bounds, delta_buckets, 0, 0,
                                TargetOfDeltaCount(<<3, 4>>, delta_count, total)))

\* the delta histogram of the k-th sample is unusable: the layout drifted,
\* there are no buckets or no bounds, or no delta bucket holds a count
Unusable(dists, k) ==
    \/ k > 1 /\ ~SameLayout(dists[k], dists[k - 1])
    \/ dists[k].bucket_counts = <<>>
    \/ dists[k].bounds = <<>>
    \/ SumOf(DeltaBucketsAt(dists, k), 1) = 0

Others == <<tsvars, figvars, repvars, sqlvars>>

\* what every step of the calling thread and every start of a worker changes
progress == <<pc, nsubmitted, fut>>

SpecLive ==
    /\ Spec
    /\ WF_progress(Submit /\ UNCHANGED Others)
    /\ \A i \in Tasks : WF_progress(Start(i) /\ UNCHANGED Others)
    /\ WF_progress(\E i \in Tasks : Collect(i) /\ UNCHANGED Others)
    /\ WF_progress(EndLoop /\ UNCHANGED Others)
    /\ WF_progress(Shutdown /\ UNCHANGED Others)
    /\ WF_progress(Assemble /\ UNCHANGED Others)

\* the i-th fetch task has completed or failed
Completed(i) == i \in DOMAIN fut /\ fut[i].state = "finished"

\* generate_cloudsql_metrics has returned a snapshot or raised
Left == pc \in {"returned", "raised"}

\* C26: if every dispatched fetch task eventually completes or fails,
\* generate_cloudsql_metrics eventually returns a snapshot or raises; and a
\* task that never completes keeps it from ever returning, also after
\* another task has failed (there is no per-task deadline).
C26_ReturnsIffAllComplete ==
    /\ (\A i \in Tasks : <>Completed(i)) => <>Left
    /\ \A i \in Tasks : ([]~Completed(i)) => []~Left

\* the error of a failed task is on its way out of the function, which
\* waits for a task that is still running
C26_Witness ==
    /\ pc = "exit_raising"
    /\ error.why \in Reasons
    /\ \E i \in Tasks : fut[i].state = "running"

\* how often the tuple t occurs in the list s
CountOf(s, t) == Cardinality({k \in 1..Len(s) : s[k] = t})

\* what one raw series alone is decoded to: (minute, delta) tuples in time
\* order, the first delta being the raw value of its first point
DecodedAlone(fn, ts) ==
    LET pts == TimeOrdered(ts.points)
    IN  IF fn = "load_perquery_lock_time"
        THEN [k \in 1..Len(pts) |-> <<MinutesOf(pts)[k], DeltasOf(pts)[k]>>]
        ELSE [k \in 1..Len(pts) |->
                 <<MinutesOf(pts)[k],
                   DeltaCountAt([j \in 1..Len(pts) |-> pts[j][2]], k)>>]

\* C28: when several raw series share one identity tuple,
\* load_perquery_lock_time and load_perquery_latency decode each raw series
\* on its own (its first point is emitted as its raw value), append all
\* deltas to the series of the one bundle, and sort it: the timestamps of
\* the bundle's series are non-decreasing (and may repeat).
C28_DecodingRestartsPerSeries ==
    call.op \in {"load_perquery_lock_time", "load_perquery_latency"} =>
        \A b \in 1..Len(result) :
            LET values  == SeriesOf(call.op, result[b]).values
                members == {i \in 1..Len(call.series_list) :
                               Identity(call.op, call.series_list[i]) =
                                   BundleIdentity(call.op, result[b])}
                alone   == [i \in 1..Len(call.series_list) |->
                               DecodedAlone(call.op, call.series_list[i])]
                tuples  == {values[k] : k \in 1..Len(values)}
                               \cup UNION {{alone[i][k] : k \in 1..Len(alone[i])} :
                                              i \in members}
            IN  /\ \A t \in tuples :
                      CountOf(values, t) =
                          SumOf([i \in 1..Len(call.series_list) |->
                                    IF i \in members THEN CountOf(alone[i], t) ELSE 0], 1)
                /\ \A k \in 1..(Len(values) - 1) : values[k][1] <= values[k + 1][1]

\* two raw series of one identity, the second starting at 250 after the
\* first ended at 100: the bundle holds the 250 itself, and a timestamp twice
C28_Witness ==
    /\ call.op = "load_perquery_lock_time"
    /\ Len(call.series_list) = 2
    /\ Len(result) = 1
    /\ DecodedAlone(call.op, call.series_list[1]) =
          << <<MkTs(0, 2, 0, 0), 0>>, <<MkTs(0, 2, 0, 0), 100>> >>
    /\ Len(call.series_list[2].points) = 3
    /\ DecodedAlone(call.op, call.series_list[2])[1][2] = 250
    /\ LET values == result[1].perquery_lock_time.values
       IN  /\ \E k \in 1..Len(values) : values[k][2] = 250
           /\ \E k \in 1..(Len(values) - 1) : values[k][1] = values[k + 1][1]

(***************************************************************************)
(* Repeated TimeSeries.group_by_minutes on a series that was filled        *)
(* before.  128 quanta stand for 8.0: 0.5 + 8.0 needs one significand bit  *)
(* more than the model's floats have, also at the next wider width.        *)
(***************************************************************************)
RegroupSamples == { <<MkTs(0, 1, 30, 1), 8>>, <<MkTs(0, 4, 0, 0), 40>>,
                    <<MkTs(1, 3, 0, 0), 40>>, <<MkTs(0, 1, 30, 1), 128>> }

RegroupInputs == UNION { [1..n -> RegroupSamples] : n \in 0..MaxRegroupLen }

InitRegroup ==
    /\ \E values \in RegroupInputs : self = TimeSeries(values, "us")
    /\ other = TimeSeries(<<>>, NoneUnit)
    /\ result = None
    /\ raised = NoErr
    /\ call = [op |-> "init"]
    /\ OrchIdle
    /\ FigIdle
    /\ RepIdle
    /\ SqlIdle

NextRegroup ==
    \/ (GroupByMinutes /\ UNCHANGED <<orchvars, figvars, repvars, sqlvars>>)

SpecRegroup == InitRegroup /\ [][NextRegroup]_vars

\* the exact total of the stored values
TotalOf(values) == SumFrom(values, 1)

\* a step that applies group_by_minutes again, with the arguments of the
\* call before it
SecondCall ==
    /\ Grouped
    /\ call'.op = "group_by_minutes"
    /\ call'.min = call.min
    /\ call'.mode = call.mode

\* C29 as stated: group_by_minutes(m, mode) applied a second time leaves the
\* stored list unchanged, and in mode sum the total of all stored values is
\* the same before and after a call.
C29_IdempotentTotalKept ==
    /\ [][SecondCall => self'.values = self.values]_vars
    /\ []((Grouped /\ call.mode = "sum") => TotalOf(self.values) = TotalOf(call.pre))

\* C29 amended: the second application leaves the list unchanged; in mode
\* sum every stored bucket sum is the float sum of its samples, so the total
\* is kept exactly when no addition rounded, and otherwise moves by at most
\* half an ulp of the bucket sum for every addition after the first of a
\* bucket.
C29_IdempotentTotalRounded ==
    /\ [][SecondCall => self'.values = self.values]_vars
    /\ []((Grouped /\ call.mode = "sum") =>
            /\ \A i \in 1..Len(self.values) :
                  LET members == InBucket(call.pre, self.values[i][1], call.min)
                      exact   == SumOf([k \in 1..Len(call.pre) |->
                                           IF k \in members THEN call.pre[k][2] ELSE 0], 1)
                  IN  2 * Abs(self.values[i][2] - exact)
                          <= (Cardinality(members) - 1) * Ulp(self.values[i][2])
            /\ (\A i \in 1..Len(self.values) : Cardinality(
                    InBucket(call.pre, self.values[i][1], call.min)) = 1)
                  => TotalOf(self.values) = TotalOf(call.pre))

\* a second sum over 5 minutes found the list the first had left: two
\* buckets, one of them holding a value that only a sum of samples gives
C29_Witness ==
    /\ Grouped /\ call.mode = "sum" /\ call.min = 5
    /\ call.pre = self.values
    /\ Len(self.values) = 2
    /\ \E i \in 1..2 : \A sample \in RegroupSamples : self.values[i][2] # sample[2]

(***************************************************************************)
(* The query window (src/src/g_monitoring_collector.py:12-37, reached from *)
(* generate, src/src/pshs.py:45-62).  An optional argument is None or a    *)
(* record holding its value; the clock is read by datetime.now and never   *)
(* goes back; call.at keeps the clock reading of every task's call.        *)
(***************************************************************************)
Dt(t)    == [kind |-> "datetime", t |-> t]
IntOf(n) == [kind |-> "int", v |-> n]

WindowTimes == { MkTs(1, 0, 0, 0), MkTs(3, 30, 0, 0) }
OptTimes    == { None } \cup { Dt(t) : t \in WindowTimes }
Hours       == { 0, 1, 2 }
OptHours    == { None } \cup { IntOf(h) : h \in Hours }

\* the readings of datetime.now(timezone.utc) during the run
Clock == { MkTs(5, 0, 0, 0) + 7 * k : k \in 0..MaxClock }

\* timedelta(hours=h)
Timedelta(h) == h * (MkTs(1, 0, 0, 0) - MkTs(0, 0, 0, 0))

\* GMonitoringCollector.__init__
GMonitoringCollector(duration_hours, start_time, end_time) ==
    [kind |-> "GMonitoringCollector", duration_hours |-> duration_hours,
     start_time |-> start_time, end_time |-> end_time]

\* sum(provided) of generate
Provided(start_time, end_time, duration_hours) ==
    (IF start_time # None THEN 1 ELSE 0) + (IF end_time # None THEN 1 ELSE 0)
        + (IF duration_hours # None THEN 1 ELSE 0)

\* the check of generate on its three options
GenerateRaises(start_time, end_time, duration_hours) ==
    IF Provided(start_time, end_time, duration_hours) # 2 THEN "UsageError" ELSE NoErr

\* a get_start_end_time whose third case always reads the clock
get_start_end_time_now(c, now) ==
    IF c.start_time # None /\ c.end_time # None
    THEN <<c.start_time.t, c.end_time.t>>
    ELSE IF c.start_time # None
    THEN <<c.start_time.t, c.start_time.t + Timedelta(c.duration_hours)>>
    ELSE <<now - Timedelta(c.duration_hours), now>>

\* get_start_end_time, called when the clock reads now; a datetime is never
\* false, so `self.end_time or datetime.now(...)` reads the clock for None only
get_start_end_time(c, now) ==
    IF c.start_time # None /\ c.end_time # None
    THEN <<c.start_time.t, c.end_time.t>>
    ELSE IF c.start_time # None
    THEN <<c.start_time.t, c.start_time.t + Timedelta(c.duration_hours)>>
    ELSE LET end == IF c.end_time # None THEN c.end_time.t ELSE now
         IN  <<end - Timedelta(c.duration_hours), end>>

\* generate of the command line: exactly two of the three options, then the
\* collector of analysis_entry with a missing duration replaced by 0
Generate ==
    /\ call.op = "init"
    /\ \E start_time \in OptTimes, end_time \in OptTimes, duration_hours \in OptHours :
          LET args == [start_time |-> start_time, end_time |-> end_time,
                       duration_hours |-> duration_hours]
          IN  IF GenerateRaises(start_time, end_time, duration_hours) # NoErr
              THEN /\ raised' = GenerateRaises(start_time, end_time, duration_hours)
                   /\ call' = [op |-> "generate", args |-> args,
                               now |-> MkTs(5, 0, 0, 0), at |-> EmptyDict]
                   /\ UNCHANGED self
              ELSE /\ self' = GMonitoringCollector(
                                  IF duration_hours # None THEN duration_hours.v ELSE 0,
                                  start_time, end_time)
                   /\ call' = [op |-> "generate", args |-> args,
                               now |-> MkTs(5, 0, 0, 0), at |-> EmptyDict]
                   /\ UNCHANGED raised
    /\ UNCHANGED <<other, result>>

\* a collector built by a caller of the class, with any arguments
Construct ==
    /\ call.op = "init"
    /\ \E start_time \in OptTimes, end_time \in OptTimes, duration_hours \in Hours :
          /\ self' = GMonitoringCollector(duration_hours, start_time, end_time)
          /\ call' = [op |-> "GMonitoringCollector",
                      args |-> [start_time |-> start_time, end_time |-> end_time,
                                duration_hours |-> IntOf(duration_hours)],
                      now |-> MkTs(5, 0, 0, 0), at |-> EmptyDict]
    /\ UNCHANGED <<other, result, raised>>

\* fetch task i reaches its `start_time, end_time = self.get_start_end_time()`
GetStartEndTime(i) ==
    /\ call.op \in {"generate", "GMonitoringCollector"}
    /\ raised = NoErr
    /\ i \notin DOMAIN result
    /\ \E now \in Clock :
          /\ now >= call.now
          /\ result' = Put(result, i, get_start_end_time(self, now))
          /\ call' = [call EXCEPT !.now = now, !.at = Put(@, i, now)]
    /\ UNCHANGED <<self, other, raised>>

InitWindow ==
    /\ self = None
    /\ other = TimeSeries(<<>>, NoneUnit)
    /\ result = EmptyDict
    /\ raised = NoErr
    /\ call = [op |-> "init"]
    /\ OrchIdle
    /\ FigIdle
    /\ RepIdle
    /\ SqlIdle

NextWindow ==
    \/ (Generate /\ UNCHANGED <<orchvars, figvars, repvars, sqlvars>>)
    \/ (Construct /\ UNCHANGED <<orchvars, figvars, repvars, sqlvars>>)
    \/ \E i \in Tasks :
          (GetStartEndTime(i) /\ UNCHANGED <<orchvars, figvars, repvars, sqlvars>>)

SpecWindow == InitWindow /\ [][NextWindow]_vars

\* the collector came from generate, which let its options through
ByRule == call.op = "generate" /\ raised = NoErr

\* C30: under the rule of generate every task's get_start_end_time returns
\* the same window whenever it runs, of length duration_hours when the
\* duration was given and equal to the given pair otherwise; for any
\* collector the window follows the time of the call only when neither
\* start_time nor end_time is set
C30_WindowIndependentOfCallTime ==
    \A i \in DOMAIN result :
        /\ ByRule =>
              /\ \A j \in DOMAIN result : result[i] = result[j]
              /\ call.args.duration_hours # None =>
                    result[i][2] - result[i][1] = Timedelta(call.args.duration_hours.v)
              /\ call.args.duration_hours = None =>
                    result[i] = <<call.args.start_time.t, call.args.end_time.t>>
        /\ (self.start_time # None \/ self.end_time # None) =>
              \A j \in DOMAIN result : result[i] = result[j]
        /\ (self.start_time = None /\ self.end_time = None) =>
              result[i] = <<call.at[i] - Timedelta(self.duration_hours), call.at[i]>>

\* generate was given an end and two hours; every task asked at another
\* time, and all got the window that ends at the given end
C30_Witness ==
    /\ ByRule
    /\ call.args.start_time = None /\ call.args.duration_hours = IntOf(2)
    /\ DOMAIN result = Tasks
    /\ \E i \in Tasks, j \in Tasks : call.at[i] < call.at[j]
    /\ \A i \in Tasks : result[i] = <<call.args.end_time.t - Timedelta(2), call.args.end_time.t>>

====
